---- MODULE Spec2Model ----
(***************************************************************************)
(* Model of the bounded concurrent condensation pipeline of bookcondense:  *)
(* summarizePages (src/lib/summarizer.ts) driven by the streaming POST     *)
(* handler of the condense route (src/unnamed/part_001).                   *)
(*                                                                         *)
(* The model works at the granularity of JavaScript jobs: a synchronous    *)
(* stretch of code is one step, and every promise reaction (a .then        *)
(* callback, a .finally callback, the continuation of an await) is a step  *)
(* of its own.  The external condensation call of a page is a black box    *)
(* whose promise settles at any moment between two jobs.                   *)
(*                                                                         *)
(* The part of the POST handler that runs before the stream is opened      *)
(* (validation of the form, extractPdfPages, the selection filter) is the  *)
(* specification PostSpec.  The word targets processPage computes for a    *)
(* page are the specification TargetSpec.  The other pure functions of     *)
(* the program (the quote target, extractQuotes, sanitizeForPdf, wrapText, *)
(* renderCondensedPdf, the fragment loop of pagerender) each have a        *)
(* specification that applies the function to the inputs of a bounded set. *)
(***************************************************************************)
EXTENDS Integers, Sequences, FiniteSets, TLC

MaxPages == 3
MaxConc == 2
MaxSrcPages == 4
MaxWordCount == 2500
MaxSummaryLen == 6
MaxTextLen == 3
MaxWrapLen == 5
MaxWidth == 4
MaxFragments == 3
MaxEvents == 2

PageIds == 1..MaxPages

VARIABLES
  pages,          \* the (selected) pages handed to summarizePages
  concurrency,    \* options.concurrency
  configured,     \* OPEN_AI_API_KEY is set (assertClientConfigured passes)
  queue,          \* summarizePages: queue
  active,         \* summarizePages: active (promises, named by their page)
  results,        \* summarizePages: results (page numbers of the results)
  completedCount, \* summarizePages: completedCount
  task,           \* per page: how far its promise chain has got
  chain,          \* pages whose promise chain has jobs to run, in the order
                  \* in which processPage's promise settled
  sched,          \* position of summarizePages / runNext
  raceSnap,       \* promises Promise.race(active) was called with
  allSnap,        \* promises Promise.all(active) was called with
  admitted,       \* log of processPage calls, in call order
  progressCalls,  \* log of onProgress calls <<pageNumber, completedCount>>
  routePc,        \* position of the stream's start() callback
  rendered,       \* outcome of renderCondensedPdf
  stream,         \* events enqueued on the controller, in order
  ctrl,           \* state of the stream controller
  aborted,        \* the caller has withdrawn the request
  abortDone,      \* number of results collected when the caller aborted
  form,           \* POST: the fields of the request's form data
  parsed,         \* POST: parsed.data of requestSchema.safeParse
  postPc,         \* POST: position of the handler before the stream
  response,       \* POST: the response the handler returns
  srcPages,       \* extractPdfPages: source pages handed to pagerender
  extracted,      \* extractPdfPages: pages
  pageIndex,      \* extractPdfPages: pageIndex
  hadPageError,   \* extractPdfPages: hadPageError
  target,         \* processPage: a page's wordCount, the density and the
                  \* target word count computed from them
  call            \* one call of a pure function: its arguments, its local
                  \* variables and its result

vars == <<pages, concurrency, configured, queue, active, results,
          completedCount, task, chain, sched, raceSnap, allSnap,
          admitted, progressCalls, routePc, rendered, stream, ctrl, aborted,
          abortDone, form, parsed, postPc, response, srcPages, extracted,
          pageIndex, hadPageError, target, call>>

schedVars == <<queue, active, results, completedCount, task, chain, sched,
               raceSnap, allSnap, admitted, progressCalls>>

routeVars == <<routePc, rendered, stream, ctrl>>

postVars == <<form, parsed, postPc, response, srcPages, extracted, pageIndex,
              hadPageError>>

inputVars == <<pages, concurrency, configured, postVars, target, call>>

\* the variables of summarizePages and of the stream, without its input
\* pages, and the word targets, which the handler does not compute
pipeVars == <<concurrency, configured, schedVars, routeVars, aborted,
              abortDone, target, call>>

\* everything but the variable of the pure functions
programVars == <<pages, concurrency, configured, schedVars, routeVars,
                 aborted, abortDone, postVars, target>>

----------------------------------------------------------------------------
(* Helpers *)

SeqToSet(s) == {s[i] : i \in 1..Len(s)}

Max(a, b) == IF a >= b THEN a ELSE b

Min(a, b) == IF a <= b THEN a ELSE b

\* Array.prototype.indexOf: 0-based index of the first occurrence, -1 if absent
IndexOf(s, x) ==
  IF \E i \in 1..Len(s) : s[i] = x
  THEN (CHOOSE i \in 1..Len(s) : s[i] = x /\ \A j \in 1..(i-1) : s[j] # x) - 1
  ELSE -1

\* Array.prototype.splice(start, 1): a negative start counts from the end
Splice(s, start) ==
  LET from == IF start < 0 THEN Max(Len(s) + start, 0) ELSE Min(start, Len(s))
  IN  IF from >= Len(s) THEN s
      ELSE SubSeq(s, 1, from) \o SubSeq(s, from + 2, Len(s))

\* the .finally callback: active.splice(active.indexOf(promise), 1)
RemoveActive(act, p) == Splice(act, IndexOf(act, p))

\* insertion of one result into a list sorted by pageNumber
RECURSIVE InsertSorted(_, _)
InsertSorted(s, x) ==
  IF s = <<>> THEN <<x>>
  ELSE IF x < Head(s) THEN <<x>> \o s
  ELSE <<Head(s)>> \o InsertSorted(Tail(s), x)

\* results.sort((a, b) => a.pageNumber - b.pageNumber)
RECURSIVE SortByPage(_)
SortByPage(s) ==
  IF s = <<>> THEN <<>> ELSE InsertSorted(SortByPage(Tail(s)), Head(s))

\* variant: the cap test is off by one (active.length > concurrency)
AtCapOffByOne(act, c) == Len(act) > c

\* variant: the cap test fires one task early (active.length >= concurrency-1)
AtCapEarly(act, c) == Len(act) >= c - 1

\* if (active.length >= concurrency) await Promise.race(active)
AtCap(act, c) == Len(act) >= c

\* variant: the page is taken from the back of the queue (queue.pop())
NextPageFromBack(q) == q[Len(q)]

\* const page = queue.shift(): the page at the front of the queue
NextPage(q) == Head(q)

\* variant: the race is started before the new promise is pushed
RaceArgsBeforePush(act) == SeqToSet(SubSeq(act, 1, Len(act) - 1))

\* the promises Promise.race(active) is called with
RaceArgs(act) == SeqToSet(act)

\* variant: the counter is not advanced
NextCountStuck(c) == c

\* completedCount += 1
NextCount(c) == c + 1

\* how many reactions of its promise chain a task has run
Rank(status) ==
  IF status \in {"resolved", "rejected"} THEN 0
  ELSE IF status \in {"thenOk", "thenErr"} THEN 1
  ELSE IF status \in {"finOk", "finErr"} THEN 2
  ELSE 3

\* reaction jobs run first in, first out, and the chains of all pages have
\* the same shape: a page runs its next reaction only after every page whose
\* processPage promise settled earlier has run that reaction
MayRun(p, tsk, chn) ==
  \A i \in 1..Len(chn) :
    (\E j \in (i + 1)..Len(chn) : chn[j] = p)
      => Rank(tsk[chn[i]]) > Rank(tsk[p])

\* the events of the stream
MetaEvent(n) == [type |-> "meta", n |-> n, page |-> 0, doc |-> <<>>]

ProgressEvent(count, page) ==
  [type |-> "progress", n |-> count, page |-> page, doc |-> <<>>]

ResultEvent(doc) == [type |-> "result", n |-> 0, page |-> 0, doc |-> doc]

ErrorEvent == [type |-> "error", n |-> 0, page |-> 0, doc |-> <<>>]

\* variant: enqueue never throws
CanEnqueueAlways(c) == TRUE

\* send(): controller.enqueue throws unless the controller is open
CanEnqueue(c) == c = "open"

\* the pages extractPdfPages returns, after the selection filter: numbered
\* ascending, at least one
PageLists ==
  {s \in UNION {[1..n -> PageIds] : n \in 1..MaxPages} :
     \A i \in 1..(Len(s) - 1) : s[i] < s[i + 1]}

----------------------------------------------------------------------------
(* The word targets of processPage.  JavaScript numbers are IEEE 754       *)
(* doubles: clamp(densityPercent, 5, 95) / 100 is the double nearest to    *)
(* the quotient, and its product with wordCount is rounded to a double     *)
(* once more before Math.round.  The doubles are not stored; for integers  *)
(* c and w the operators below compute what Math.round(w * (c / 100))      *)
(* returns from the sign and size of the error of the quotient.            *)

MIN_SUMMARY_WORDS == 120

MAX_SUMMARY_WORDS == 650

\* variant: the lower bound is not applied
ClampNoFloor(value, min, max) == Min(value, max)

\* clamp: Math.min(Math.max(value, min), max)
Clamp(value, min, max) == Min(Max(value, min), max)

RECURSIVE Pow2(_)
Pow2(n) == IF n = 0 THEN 1 ELSE 2 * Pow2(n - 1)

RECURSIVE Pow2Mod100(_)
Pow2Mod100(n) == IF n = 0 THEN 1 ELSE (2 * Pow2Mod100(n - 1)) % 100

RECURSIVE FloorLog2(_)
FloorLog2(n) == IF n < 2 THEN 0 ELSE 1 + FloorLog2(n \div 2)

\* for 0 < c < 100: the k with 1 <= c * 2^k / 100 < 2, so that the double
\* nearest to c / 100 is m / 2^(52 + k) with an integer m of 53 bits
RECURSIVE RatioScale(_, _)
RatioScale(c, k) == IF c * Pow2(k) >= 100 THEN k ELSE RatioScale(c, k + 1)

\* the error of the double nearest to c / 100, as the integer
\* 100 * m - c * 2^(52 + k): negative when the double is below c / 100.
\* (Round to nearest; the remainder is never 50, so there is no tie.)
RatioError(c) ==
  LET rem == (c * Pow2Mod100(52 + RatioScale(c, 0))) % 100
  IN  IF rem < 50 THEN 0 - rem ELSE 100 - rem

\* Math.round(w * ratio) for ratio the double nearest to c / 100.  Unless
\* w * c / 100 is an integer plus one half, the errors are too small to
\* move the product across a rounding boundary.  If it is h = q + 1/2, a
\* double itself, the product is rounded to a double below h exactly when
\* the quotient's double is below c / 100 and w times its error exceeds
\* half the distance from h to the double before it, 2^(e - 53) for
\* 2^e <= h < 2^(e + 1); Math.round then returns q instead of q + 1.
RoundProduct(w, c) ==
  LET n == w * c
      q == n \div 100
  IN  IF n % 100 # 50 THEN (n + 50) \div 100
      ELSE IF RatioError(c) >= 0 \/ q = 0 THEN q + 1
      ELSE IF w * (0 - RatioError(c)) >
                100 * Pow2(RatioScale(c, 0) + FloorLog2(q) - 1)
      THEN q
      ELSE q + 1

\* targetSummaryWordCount(page, densityPercent)
TargetSummaryWordCount(wordCount, densityPercent) ==
  LET raw == RoundProduct(wordCount, Clamp(densityPercent, 5, 95))
  IN  Clamp(raw, MIN_SUMMARY_WORDS, MAX_SUMMARY_WORDS)

\* the densities the model tries: every fifth percent from 0 to 100 (the
\* sliders of the page move in steps of 5)
Densities == {5 * i : i \in 0..20}

NoTarget ==
  [wordCount |-> 0, summaryDensity |-> 0, words |-> 0, done |-> FALSE]

\* no pure function is being called
NoCall == [pc |-> "none"]

\* targetQuotedWords(page, summaryTargetWords, quoteDensity); the minimum is
\* decided by the ratio, the double nearest to clamp(quoteDensity,0,100)/100,
\* which is positive exactly when the clamped density is
TargetQuotedWords(summaryTargetWords, quoteDensity) ==
  LET percent == Clamp(quoteDensity, 0, 100)
      desired == RoundProduct(summaryTargetWords, percent)
      maxQuotedWords == Max(0, summaryTargetWords - 20)
  IN  Clamp(desired, IF percent > 0 THEN 12 ELSE 0, maxQuotedWords)

----------------------------------------------------------------------------
(* The POST handler before the stream: form values, schemas, extraction *)

\* a field of the form data that is missing or the empty string
Absent == [kind |-> "absent", tenths |-> 0]

\* a field holding a string that Number() turns into NaN
Text == [kind |-> "text", tenths |-> 0]

\* a field holding a numeric string; the number is kept in tenths, so that
\* values that are not integers (50.5) can be told from integers
Num(t) == [kind |-> "number", tenths |-> t]

SummaryDensityInputs ==
  {Absent, Text, Num(505)} \cup {Num(10 * v) : v \in {4, 5, 9, 10, 100, 101}}

QuoteDensityInputs == {Num(10 * v) : v \in {-1, 0, 100, 101}}

\* the selectedPages field: missing, a string that is not a JSON array, or a
\* JSON array of numbers
SelectedPagesInputs ==
  {[kind |-> "absent", entries |-> <<>>],
   [kind |-> "notArray", entries |-> <<>>]}
    \cup {[kind |-> "array", entries |-> e] :
            e \in {<<>>, <<2, 4>>, <<99>>, <<0, 0 - 1>>, <<3, 1>>}}

Files == {"pdf", "missing", "notPdf", "tooLarge"}

Forms ==
  [file : Files, summaryDensity : SummaryDensityInputs,
   quoteDensity : QuoteDensityInputs, selectedPages : SelectedPagesInputs]

NoForm ==
  [file |-> "pdf", summaryDensity |-> Absent, quoteDensity |-> Absent,
   selectedPages |-> [kind |-> "absent", entries |-> <<>>]]

\* percentSchema(min, max, fallback): the preprocess step puts the fallback
\* in the place of a missing value and turns a numeric string into its
\* number; z.number().min(min).max(max) then accepts a number in the range
PercentSchema(min, max, fallback, raw) ==
  LET value == IF raw.kind = "absent" THEN Num(10 * fallback) ELSE raw
  IN  [success |-> /\ value.kind = "number"
                   /\ value.tenths >= 10 * min
                   /\ value.tenths <= 10 * max,
       data |-> value.tenths]

\* selectedPagesSchema without its filter
SelectedPagesSchemaUnfiltered(raw) ==
  IF raw.kind = "array"
  THEN [defined |-> TRUE, list |-> raw.entries]
  ELSE [defined |-> FALSE, list |-> <<>>]

\* selectedPagesSchema: undefined unless the field is a JSON array; of an
\* array the positive integers are kept
SelectedPagesSchema(raw) ==
  IF raw.kind = "array"
  THEN [defined |-> TRUE, list |-> SelectSeq(raw.entries, LAMBDA e : e > 0)]
  ELSE [defined |-> FALSE, list |-> <<>>]

\* requestSchema.safeParse
RequestSchema(f) ==
  LET sd == PercentSchema(10, 100, 70, f.summaryDensity)
      qd == PercentSchema(0, 100, 30, f.quoteDensity)
  IN  [success |-> sd.success /\ qd.success,
       data |-> [summaryDensity |-> sd.data, quoteDensity |-> qd.data,
                 selectedPages |-> SelectedPagesSchema(f.selectedPages)]]

NoParsed ==
  [summaryDensity |-> 0, quoteDensity |-> 0,
   selectedPages |-> [defined |-> FALSE, list |-> <<>>]]

DEFAULT_MIN_CHAR_THRESHOLD == 12

\* a source page as pagerender meets it: getTextContent throws, or the
\* assembled and normalized text has `chars` characters
PageKinds ==
  {[throws |-> TRUE, chars |-> 0]}
    \cup {[throws |-> FALSE, chars |-> c] : c \in {11, 12, 13, 14}}

\* if (cleaned.length >= DEFAULT_MIN_CHAR_THRESHOLD)
Emitted(kind) == ~kind.throws /\ kind.chars >= DEFAULT_MIN_CHAR_THRESHOLD

\* variant: the page counter advances for every source page
AdvanceIndexAlways(idx, emitted) == idx + 1

\* pageIndex += 1, inside the test of the text length
AdvanceIndex(idx, emitted) == IF emitted THEN idx + 1 ELSE idx

\* variant: a page that could not be read fails the extraction
ExtractionThrowsOnPageError(pgs, pageError) == Len(pgs) = 0 \/ pageError

\* if (pages.length === 0) throw new PdfExtractionError(...); hadPageError
\* only decides whether a warning is logged
ExtractionThrows(pgs, pageError) == Len(pgs) = 0

\* variant: the selection is ignored
FilterSelectedKeepAll(pgs, list) == pgs

\* pages.filter((page) => selection.has(page.pageNumber))
FilterSelected(pgs, list) ==
  SelectSeq(pgs, LAMBDA pg : pg.pageNumber \in SeqToSet(list))

----------------------------------------------------------------------------
\* summarizePages and the stream before start() is called
PipelineStart ==
  /\ queue = <<>>
  /\ active = <<>>
  /\ results = <<>>
  /\ completedCount = 0
  /\ task = [p \in PageIds |-> "none"]
  /\ chain = <<>>
  /\ sched = "idle"
  /\ raceSnap = {}
  /\ allSnap = {}
  /\ admitted = <<>>
  /\ progressCalls = <<>>
  /\ routePc = "init"
  /\ rendered = "none"
  /\ stream = <<>>
  /\ ctrl = "open"
  /\ aborted = FALSE
  /\ abortDone = 0

\* the handler has opened the stream: its part before the stream is over
PostOver ==
  /\ form = NoForm
  /\ parsed = NoParsed
  /\ postPc = "done"
  /\ response = "stream"
  /\ srcPages = <<>>
  /\ extracted = <<>>
  /\ pageIndex = 0
  /\ hadPageError = FALSE

Init ==
  /\ pages \in PageLists
  /\ concurrency \in 1..MaxConc
  /\ configured \in BOOLEAN
  /\ PipelineStart
  /\ PostOver
  /\ target = NoTarget
  /\ call = NoCall

\* start(controller): send("meta"), then the call of summarizePages up to
\* its first call of runNext
Start ==
  /\ routePc = "init"
  /\ routePc' = "summarizing"
  /\ stream' = IF CanEnqueue(ctrl) THEN Append(stream, MetaEvent(Len(pages)))
               ELSE stream
  /\ queue' = pages
  /\ sched' = "run"
  /\ UNCHANGED <<active, results, completedCount, task, chain, raceSnap,
                 allSnap, admitted, progressCalls, rendered, ctrl, aborted,
                 abortDone, inputVars>>

\* one invocation of runNext, up to its await or its return; while the
\* scheduler is in "run" it holds the thread and nothing else happens
RunNext ==
  /\ sched = "run"
  /\ IF queue = <<>>
     THEN /\ sched' = "joining"
          /\ UNCHANGED <<queue, active, task, chain, admitted, raceSnap>>
     ELSE LET p == NextPage(queue)
              act == Append(active, p)
          IN  /\ queue' = Tail(queue)
              /\ task' = [task EXCEPT ![p] =
                            IF configured THEN "pending" ELSE "rejected"]
              /\ chain' = IF configured THEN chain ELSE Append(chain, p)
              /\ admitted' = Append(admitted, p)
              /\ active' = act
              /\ IF AtCap(act, concurrency)
                 THEN sched' = "race" /\ raceSnap' = RaceArgs(act)
                 ELSE sched' = "run" /\ UNCHANGED raceSnap
  /\ UNCHANGED <<results, completedCount, allSnap, progressCalls, routeVars,
                 aborted, abortDone, inputVars>>

\* the external condensation call of page p settles: processPage returns a
\* result, or throws (request failed, or the model returned empty text)
Settle(p) ==
  /\ sched # "run"
  /\ task[p] = "pending"
  /\ \E outcome \in {"resolved", "rejected"} :
       task' = [task EXCEPT ![p] = outcome]
  /\ chain' = Append(chain, p)
  /\ UNCHANGED <<queue, active, results, completedCount, sched, raceSnap,
                 allSnap, admitted, progressCalls, routeVars, aborted,
                 abortDone, inputVars>>

\* the reaction of .then(...) on processPage's promise: the callback on
\* fulfilment (which throws when onProgress's send throws), pass-through of a
\* rejection
ThenCallback(p) ==
  /\ sched # "run"
  /\ task[p] \in {"resolved", "rejected"}
  /\ MayRun(p, task, chain)
  /\ IF task[p] = "resolved"
     THEN /\ results' = Append(results, p)
          /\ completedCount' = NextCount(completedCount)
          /\ progressCalls' =
               Append(progressCalls, <<p, NextCount(completedCount)>>)
          /\ IF CanEnqueue(ctrl)
             THEN /\ stream' =
                       Append(stream,
                              ProgressEvent(NextCount(completedCount), p))
                  /\ task' = [task EXCEPT ![p] = "thenOk"]
             ELSE /\ stream' = stream
                  /\ task' = [task EXCEPT ![p] = "thenErr"]
     ELSE /\ task' = [task EXCEPT ![p] = "thenErr"]
          /\ UNCHANGED <<results, completedCount, progressCalls, stream>>
  /\ UNCHANGED <<queue, active, chain, sched, raceSnap, allSnap, admitted,
                 routePc, rendered, ctrl, aborted, abortDone, inputVars>>

\* the .finally callback of page p's promise
FinallyCallback(p) ==
  /\ sched # "run"
  /\ task[p] \in {"thenOk", "thenErr"}
  /\ MayRun(p, task, chain)
  /\ active' = RemoveActive(active, p)
  /\ task' = [task EXCEPT ![p] = IF task[p] = "thenOk" THEN "finOk"
                                 ELSE "finErr"]
  /\ UNCHANGED <<queue, results, completedCount, chain, sched, raceSnap,
                 allSnap, admitted, progressCalls, routeVars, aborted,
                 abortDone, inputVars>>

\* the promise stored in active settles, and with it a Promise.race or
\* Promise.all that was called with it and is still pending
PromiseSettle(p) ==
  /\ sched # "run"
  /\ task[p] \in {"finOk", "finErr"}
  /\ MayRun(p, task, chain)
  /\ chain' = SelectSeq(chain, LAMBDA q : q # p)
  /\ LET ok == task[p] = "finOk"
         t  == [task EXCEPT ![p] = IF ok THEN "doneOk" ELSE "doneErr"]
     IN  /\ task' = t
         /\ sched' =
              IF sched = "race" /\ p \in raceSnap
              THEN (IF ok THEN "raceOk" ELSE "raceErr")
              ELSE IF sched = "all" /\ p \in allSnap
              THEN (IF ~ok THEN "allErr"
                    ELSE IF \A q \in allSnap : t[q] = "doneOk" THEN "allOk"
                    ELSE "all")
              ELSE sched
  /\ UNCHANGED <<queue, active, results, completedCount, raceSnap, allSnap,
                 admitted, progressCalls, routeVars, aborted, abortDone,
                 inputVars>>

\* variant: the rejection of the race is swallowed and runNext goes on
ResumeRaceSwallow ==
  /\ sched \in {"raceOk", "raceErr"}
  /\ sched' = "run"
  /\ UNCHANGED <<queue, active, results, completedCount, task, chain, raceSnap,
                 allSnap, admitted, progressCalls, routeVars, aborted,
                 abortDone, inputVars>>

\* runNext continues after await Promise.race(active): return runNext(), or
\* the rejection leaves runNext and summarizePages
ResumeRace ==
  /\ sched \in {"raceOk", "raceErr"}
  /\ sched' = IF sched = "raceOk" THEN "run" ELSE "failed"
  /\ UNCHANGED <<queue, active, results, completedCount, task, chain, raceSnap,
                 allSnap, admitted, progressCalls, routeVars, aborted,
                 abortDone, inputVars>>

\* variant: summarizePages does not await the promises still in active
JoinAllNoWait ==
  /\ sched = "joining"
  /\ allSnap' = {}
  /\ sched' = "allOk"
  /\ UNCHANGED <<queue, active, results, completedCount, task, chain, raceSnap,
                 admitted, progressCalls, routeVars, aborted, abortDone,
                 inputVars>>

\* summarizePages continues after await runNext(): Promise.all(active)
JoinAll ==
  /\ sched = "joining"
  /\ allSnap' = SeqToSet(active)
  /\ sched' = IF active = <<>> THEN "allOk" ELSE "all"
  /\ UNCHANGED <<queue, active, results, completedCount, task, chain, raceSnap,
                 admitted, progressCalls, routeVars, aborted, abortDone,
                 inputVars>>

\* summarizePages continues after await Promise.all(active): sort and
\* return, or reject
Return ==
  /\ sched \in {"allOk", "allErr"}
  /\ IF sched = "allOk"
     THEN sched' = "returned" /\ results' = SortByPage(results)
     ELSE sched' = "failed" /\ UNCHANGED results
  /\ UNCHANGED <<queue, active, completedCount, task, chain, raceSnap, allSnap,
                 admitted, progressCalls, routeVars, aborted, abortDone,
                 inputVars>>

\* start() continues after await summarizePages(...): renderCondensedPdf,
\* which throws on an empty list; a rejection goes to the catch block
RouteRender ==
  /\ routePc = "summarizing"
  /\ sched \in {"returned", "failed"}
  /\ rendered' = IF sched = "returned" /\ results # <<>> THEN "ok" ELSE "error"
  /\ routePc' = "terminal"
  /\ UNCHANGED <<stream, ctrl, schedVars, aborted, abortDone, inputVars>>

\* send("result") or, in the catch block, send("error"); then
\* controller.close().  On a controller that is no longer open both throw.
RouteTerminal ==
  /\ sched # "run"
  /\ routePc = "terminal"
  /\ routePc' = "done"
  /\ IF CanEnqueue(ctrl)
     THEN /\ stream' = Append(stream, IF rendered = "ok"
                                      THEN ResultEvent(results)
                                      ELSE ErrorEvent)
          /\ ctrl' = "closed"
     ELSE UNCHANGED <<stream, ctrl>>
  /\ UNCHANGED <<rendered, schedVars, aborted, abortDone, inputVars>>

\* the caller withdraws the request (abortControllerRef.current.abort())
\* while the scheduler is suspended in an await and condensation calls are
\* pending.  The route installs no
\* cancel handler and reads no signal; the runtime either cancels the
\* response stream or does not notice.
Abort ==
  /\ sched \in {"race", "all"}
  /\ \E p \in PageIds : task[p] = "pending"
  /\ ~aborted
  /\ aborted' = TRUE
  /\ abortDone' = Len(results)
  /\ \E propagated \in BOOLEAN :
       ctrl' = IF propagated /\ ctrl = "open" THEN "cancelled" ELSE ctrl
  /\ UNCHANGED <<routePc, rendered, stream, schedVars, inputVars>>

\* the jobs of the server and the settling of the external calls
Step ==
  \/ Start
  \/ RunNext
  \/ \E p \in PageIds : Settle(p)
  \/ \E p \in PageIds : ThenCallback(p)
  \/ \E p \in PageIds : FinallyCallback(p)
  \/ \E p \in PageIds : PromiseSettle(p)
  \/ ResumeRace
  \/ JoinAll
  \/ Return
  \/ RouteRender
  \/ RouteTerminal

Next ==
  \/ Step
  \/ Abort

Spec == Init /\ [][Next]_vars

\* a job that is ready runs, and a pending external condensation call
\* settles; the caller is not obliged to abort
Fairness == WF_vars(Step)

LiveSpec == Init /\ [][Next]_vars /\ Fairness

----------------------------------------------------------------------------
(* The POST handler up to the response: a JSON error, or the stream *)

PostInit ==
  /\ form \in Forms
  /\ parsed = NoParsed
  /\ postPc = "received"
  /\ response = "none"
  /\ srcPages = <<>>
  /\ extracted = <<>>
  /\ pageIndex = 0
  /\ hadPageError = FALSE
  /\ pages = <<>>
  /\ concurrency = MaxConc
  /\ configured = TRUE
  /\ PipelineStart
  /\ target = NoTarget
  /\ call = NoCall

\* POST after await req.formData(): the checks of the file, then
\* requestSchema.safeParse
Validate ==
  /\ postPc = "received"
  /\ LET result == RequestSchema(form)
     IN  IF form.file = "missing" \/ form.file = "notPdf"
         THEN response' = "badFile" /\ postPc' = "done" /\ UNCHANGED parsed
         ELSE IF form.file = "tooLarge"
         THEN response' = "tooLarge" /\ postPc' = "done" /\ UNCHANGED parsed
         ELSE IF ~result.success
         THEN response' = "invalid" /\ postPc' = "done" /\ UNCHANGED parsed
         ELSE /\ parsed' = result.data
              /\ postPc' = "loading"
              /\ UNCHANGED response
  /\ UNCHANGED <<form, srcPages, extracted, pageIndex, hadPageError, pages,
                 pipeVars>>

\* extractPdfPages up to pdfParse opening the document: it opens, or
\* pdfParse rejects, extractPdfPages throws PdfExtractionError and the
\* handler answers 422
PdfLoad ==
  /\ postPc = "loading"
  /\ \E opens \in BOOLEAN :
       IF opens
       THEN postPc' = "rendering" /\ UNCHANGED response
       ELSE postPc' = "done" /\ response' = "unreadable"
  /\ UNCHANGED <<form, parsed, srcPages, extracted, pageIndex, hadPageError,
                 pages, pipeVars>>

\* pdfParse hands the next source page to pagerender
PageRender ==
  /\ postPc = "rendering"
  /\ Len(srcPages) < MaxSrcPages
  /\ \E kind \in PageKinds :
       LET idx == AdvanceIndex(pageIndex, Emitted(kind))
       IN  /\ srcPages' = Append(srcPages, kind)
           /\ pageIndex' = idx
           /\ extracted' =
                IF Emitted(kind)
                THEN Append(extracted,
                            [pageNumber |-> idx, src |-> Len(srcPages) + 1,
                             chars |-> kind.chars])
                ELSE extracted
           /\ hadPageError' = (hadPageError \/ kind.throws)
  /\ UNCHANGED <<form, parsed, postPc, response, pages, pipeVars>>

\* pdfParse resolves after the last page: extractPdfPages throws when no
\* page was pushed (the handler answers 422), or returns pages
ExtractReturn ==
  /\ postPc = "rendering"
  /\ IF ExtractionThrows(extracted, hadPageError)
     THEN postPc' = "done" /\ response' = "unreadable"
     ELSE postPc' = "extracted" /\ UNCHANGED response
  /\ UNCHANGED <<form, parsed, srcPages, extracted, pageIndex, hadPageError,
                 pages, pipeVars>>

\* POST after await extractPdfPages(...): the selection filter, then the
\* stream is created over the pages that are left
SelectPages ==
  /\ postPc = "extracted"
  /\ postPc' = "done"
  /\ LET sel == parsed.selectedPages
         kept == IF sel.defined /\ Len(sel.list) > 0
                 THEN FilterSelected(extracted, sel.list)
                 ELSE extracted
     IN  IF Len(kept) = 0
         THEN response' = "noMatch" /\ UNCHANGED pages
         ELSE /\ response' = "stream"
              /\ pages' = [i \in 1..Len(kept) |-> kept[i].pageNumber]
  /\ UNCHANGED <<form, parsed, srcPages, extracted, pageIndex, hadPageError,
                 pipeVars>>

PostNext ==
  \/ Validate
  \/ PdfLoad
  \/ PageRender
  \/ ExtractReturn
  \/ SelectPages

PostSpec == PostInit /\ [][PostNext]_vars

----------------------------------------------------------------------------
(* processPage computing the target word count of a page *)

TargetInit ==
  /\ target \in [wordCount : 0..MaxWordCount, summaryDensity : Densities,
                  words : {0}, done : {FALSE}]
  /\ pages = <<>>
  /\ concurrency = MaxConc
  /\ configured = TRUE
  /\ PipelineStart
  /\ PostOver
  /\ call = NoCall

\* const targetWords = targetSummaryWordCount(page, density.summaryDensity)
ComputeTarget ==
  /\ ~target.done
  /\ target' =
       [target EXCEPT
          !.words = TargetSummaryWordCount(target.wordCount,
                                           target.summaryDensity),
          !.done = TRUE]
  /\ UNCHANGED <<pages, concurrency, configured, schedVars, routeVars,
                 aborted, abortDone, postVars, call>>

TargetNext == ComputeTarget

TargetSpec == TargetInit /\ [][TargetNext]_vars

\* the characters of a summary that matter to extractQuotes: the two smart
\* quotation marks, the straight one, two letters and a blank
LDQ == "ldq"
RDQ == "rdq"
QUOT == "quot"
QuoteChars == {LDQ, RDQ, QUOT, "a", "b", " "}

\* the least number of a non-empty set
Least(S) == CHOOSE x \in S : \A y \in S : x <= y

\* the strings over an alphabet, up to a length
Strings(alphabet, maxLen) ==
  UNION {[1..n -> alphabet] : n \in 0..maxLen}

\* String.prototype.trim on a text of QuoteChars
RECURSIVE Trim(_)
Trim(str) ==
  IF str = <<>> THEN <<>>
  ELSE IF Head(str) = " " THEN Trim(Tail(str))
  ELSE IF str[Len(str)] = " " THEN Trim(SubSeq(str, 1, Len(str) - 1))
  ELSE str

\* the first index above i that holds the character, 0 when there is none
IndexAfter(str, ch, i) ==
  LET hits == {j \in (i + 1)..Len(str) : str[j] = ch}
  IN  IF hits = {} THEN 0 ELSE Least(hits)

\* pattern.exec(summary) for /<open>([^<close>]+)<close>/g with lastIndex =
\* from - 1: the leftmost opening mark at or after from that is followed by
\* one character or more other than the closing mark and then the closing
\* mark; index 0 stands for null
RegexExec(str, open, close, from) ==
  LET starts == {i \in from..Len(str) :
                   /\ str[i] = open
                   /\ IndexAfter(str, close, i) > i + 1}
  IN  IF starts = {} THEN [index |-> 0, end |-> 0, group |-> <<>>]
      ELSE LET i == Least(starts)
               j == IndexAfter(str, close, i)
           IN  [index |-> i, end |-> j, group |-> SubSeq(str, i + 1, j - 1)]

\* the body of either while loop of extractQuotes, given the match
PushQuote(c, match) ==
  LET text == Trim(match.group)
  IN  IF text = <<>> \/ text \in c.seen
      THEN [c EXCEPT !.lastIndex = match.end + 1]
      ELSE [c EXCEPT !.lastIndex = match.end + 1,
                     !.seen = @ \cup {text},
                     !.results = Append(@, [text |-> text,
                                            commentary |-> "null",
                                            originalPage |-> c.originalPage,
                                            index |-> match.index])]

\* REPLACEMENTS with the em dash replaced by the en dash
ReplacementsEmDashToEnDash ==
  [c \in {8220, 8221, 8222, 171, 187} |-> <<34>>] @@
  [c \in {8216, 8217, 8218} |-> <<39>>] @@
  (8212 :> <<8211>>) @@
  [c \in {8211, 8209, 8210} |-> <<45>>] @@
  (8230 :> <<46, 46, 46>>) @@
  [c \in {8226, 9702, 183, 9679, 9642, 9632, 9633, 9830, 9650, 9651, 9652,
          9653} |-> <<42>>] @@
  [c \in {8195, 8194, 8201, 8202, 8239, 160} |-> <<32>>]

\* REPLACEMENTS: a UTF-16 code unit to the code units of its substitute
\* (the quotation mark 34, the apostrophe 39, the hyphen 45, three full
\* stops 46, the asterisk 42, the space 32)
REPLACEMENTS ==
  [c \in {8220, 8221, 8222, 171, 187} |-> <<34>>] @@
  [c \in {8216, 8217, 8218} |-> <<39>>] @@
  [c \in {8212, 8211, 8209, 8210} |-> <<45>>] @@
  (8230 :> <<46, 46, 46>>) @@
  [c \in {8226, 9702, 183, 9679, 9642, 9632, 9633, 9830, 9650, 9651, 9652,
          9653} |-> <<42>>] @@
  [c \in {8195, 8194, 8201, 8202, 8239, 160} |-> <<32>>]

\* the callback of map with the table consulted before the comparison
SanitizeCharTableFirst(char) ==
  IF char \in DOMAIN REPLACEMENTS THEN REPLACEMENTS[char]
  ELSE IF char <= 255 THEN <<char>>
  ELSE <<>>

\* the callback of map in sanitizeForPdf, on one code unit
SanitizeChar(char) ==
  IF char <= 255 THEN <<char>>
  ELSE IF char \in DOMAIN REPLACEMENTS THEN REPLACEMENTS[char]
  ELSE <<>>

\* sanitizeForPdf(text): text.split("").map(...).join("")
RECURSIVE SanitizeForPdf(_)
SanitizeForPdf(text) ==
  IF text = <<>> THEN <<>>
  ELSE SanitizeChar(Head(text)) \o SanitizeForPdf(Tail(text))

\* code units a text is made of here: a letter, y with diaeresis (255), a
\* left guillemet and a no-break space (in the table, below 256), an em
\* dash, a left double quotation mark, an ellipsis and a black square (in
\* the table), A with macron (256) and a high surrogate (in no table)
SanitizeChars == {97, 255, 171, 160, 8212, 8220, 8230, 9632, 256, 55357}

\* code units of a text to wrap: the letters i and W, the space and the em
\* space that sanitizeForPdf turns into a space
WrapChars == {105, 87, 32, 8195}

\* what /\s+/ matches among the code units up to 255 used here
IsSpace(char) == char \in {9, 10, 13, 32, 160}

\* sanitized.split(/\s+/).map((w) => w.trim()).filter(Boolean): the maximal
\* runs of characters that are not white space
RECURSIVE SplitWords(_, _)
SplitWords(str, word) ==
  IF str = <<>> THEN (IF word = <<>> THEN <<>> ELSE <<word>>)
  ELSE IF IsSpace(Head(str))
  THEN (IF word = <<>> THEN <<>> ELSE <<word>>) \o SplitWords(Tail(str), <<>>)
  ELSE SplitWords(Tail(str), Append(word, Head(str)))

\* font.widthOfTextAtSize(text, fontSize) in units of the width of an i: the
\* advance widths of the glyphs (W is three units, the others one) plus the
\* kerning of a pair (an i after a W is drawn one unit closer)
RECURSIVE WidthOfText(_)
WidthOfText(str) ==
  IF str = <<>> THEN 0
  ELSE (IF Head(str) = 87 THEN 3 ELSE 1)
       + (IF Len(str) > 1 /\ str[1] = 87 /\ str[2] = 105 THEN 0 - 1 ELSE 0)
       + WidthOfText(Tail(str))

\* width <= maxWidth read as width <= maxWidth + 1
FitsOffByOne(str, maxWidth) == WidthOfText(str) <= maxWidth + 1

\* width <= maxWidth, testWidth <= maxWidth
Fits(str, maxWidth) == WidthOfText(str) <= maxWidth

\* lines.push({ text, x, y }) with y left where it is
PushLineSameY(lines, text) == Append(lines, [text |-> text, y |-> 0])

\* lines.push({ text, x, y }); y -= lineHeight, with y counted in lines
\* below startY
PushLine(lines, text) == Append(lines, [text |-> text, y |-> Len(lines)])

\* characters.forEach((char, charIndex) => ...) of the hard break, from
\* the character at charIndex on
RECURSIVE HardBreak(_, _, _, _, _)
HardBreak(characters, charIndex, chunk, lines, maxWidth) ==
  IF charIndex > Len(characters) THEN lines
  ELSE
    LET char == characters[charIndex]
        test == Append(chunk, char)
        last == charIndex = Len(characters)
    IN  IF Fits(test, maxWidth)
        THEN IF last THEN PushLine(lines, test)
             ELSE HardBreak(characters, charIndex + 1, test, lines, maxWidth)
        ELSE IF last THEN PushLine(PushLine(lines, chunk), <<char>>)
             ELSE HardBreak(characters, charIndex + 1, <<char>>,
                            PushLine(lines, chunk), maxWidth)

\* what addParagraph returns after drawing the lines, in line heights below
\* options.y: y - lineHeight for no line, lastLine.y - lineHeight otherwise
AddParagraphReturn(lines) ==
  IF Len(lines) = 0 THEN 1 ELSE lines[Len(lines)].y + 1

\* pages.length === 0 never found true
NoPagesNever(pgs) == FALSE

\* if (pages.length === 0)
NoPages(pgs) == Len(pgs) = 0

\* the cover page: the title or "Condensed Book", the author line when
\* there is an author, the density line and the fixed paragraph
CoverPage(title, author) ==
  [kind |-> "cover",
   title |-> IF title = "null" THEN "Condensed Book" ELSE title,
   paragraphs |-> (IF author = "null" THEN <<>> ELSE <<"Author">>)
                    \o <<"Summary density", "This edition">>]

\* the content page with the heading numbered from 0
ContentPageFromZero(summaryPage, index) ==
  [kind |-> "content",
   heading |-> index,
   body |-> SanitizeForPdf(summaryPage.summary),
   footerIndex |-> index,
   footerOriginal |-> summaryPage.pageNumber]

\* the content page the forEach callback draws for pages[index], index
\* counted from 0: "Condensed Page <index + 1>", the sanitized summary,
\* "Condensed edition page <index + 1> * Sourced from original page
\* <pageNumber>"
ContentPage(summaryPage, index) ==
  [kind |-> "content",
   heading |-> index + 1,
   body |-> SanitizeForPdf(summaryPage.summary),
   footerIndex |-> index + 1,
   footerOriginal |-> summaryPage.pageNumber]

\* the summaries a condensed page has here: plain, or with a character the
\* sanitizer replaces
Summaries == {<<97>>, <<8220, 97>>}

\* points difference on the X axis to imply a space
SPACE_GAP_THRESHOLD == 5

\* null, for a coordinate that is not known
Null == 0 - 1

\* what \s matches among the characters of a fragment
WhiteSpace == {" ", "\n", "\t", "\r", "U+00A0"}

\* PUNCTUATION_START, the characters of its class besides \s
PUNCTUATION_START ==
  WhiteSpace \cup {".", ",", ";", ":", "!", "?", "'", "\"", "U+2019",
                   "U+201D", ")", "]", "}", "U+00AB", "U+00BB"}

\* PUNCTUATION_END, the characters of its class besides \s
PUNCTUATION_END ==
  WhiteSpace \cup {"-", "U+2013", "U+2014", "(", "{", "[", "<", "'", "\"",
                   "U+201C", "U+2018"}

\* String.prototype.trimEnd
RECURSIVE TrimEnd(_)
TrimEnd(str) ==
  IF str # <<>> /\ str[Len(str)] \in WhiteSpace
  THEN TrimEnd(SubSeq(str, 1, Len(str) - 1))
  ELSE str

\* String.prototype.trimStart
RECURSIVE TrimStart(_)
TrimStart(str) ==
  IF str # <<>> /\ Head(str) \in WhiteSpace THEN TrimStart(Tail(str))
  ELSE str

\* shouldInsertSpace without its last test
ShouldInsertSpaceNoHyphen(previousChar, nextFragment) ==
  LET trimmed == TrimEnd(TrimStart(nextFragment))
  IN  /\ previousChar # <<>>
      /\ previousChar[1] \notin WhiteSpace
      /\ previousChar[1] \notin PUNCTUATION_END
      /\ trimmed # <<>>
      /\ trimmed[1] \notin PUNCTUATION_START

\* shouldInsertSpace(previousChar, nextFragment); previousChar is the empty
\* sequence for the empty string that slice(-1) gives on an empty buffer
ShouldInsertSpace(previousChar, nextFragment) ==
  LET trimmed == TrimEnd(TrimStart(nextFragment))
  IN  /\ previousChar # <<>>
      /\ previousChar[1] \notin WhiteSpace
      /\ previousChar[1] \notin PUNCTUATION_END
      /\ trimmed # <<>>
      /\ trimmed[1] \notin PUNCTUATION_START
      /\ previousChar[1] \notin {"-", "U+2010", "U+2011"}

\* assembled.slice(-1)
LastChar(str) == IF str = <<>> THEN <<>> ELSE <<str[Len(str)]>>

\* the else-if chain with the punctuation heuristic asked only for a gap
\* above 0
SeparatorGapOnly(c, item) ==
  IF c.lastY # Null /\ item.y # Null
     /\ Max(item.y - c.lastY, c.lastY - item.y) > 1
  THEN "\n"
  ELSE IF c.lastX # Null /\ item.x # Null
          /\ item.x - c.lastX > SPACE_GAP_THRESHOLD
  THEN " "
  ELSE IF (c.lastX = Null \/ item.x = Null \/ item.x - c.lastX > 0)
          /\ ShouldInsertSpace(LastChar(c.assembled), item.str)
  THEN " "
  ELSE ""

\* the else-if chain of the fragment loop: what goes between the buffer
\* and the fragment ("\n" stands for trimEnd and a line break)
Separator(c, item) ==
  IF c.lastY # Null /\ item.y # Null
     /\ Max(item.y - c.lastY, c.lastY - item.y) > 1
  THEN "\n"
  ELSE IF c.lastX # Null /\ item.x # Null
          /\ item.x - c.lastX > SPACE_GAP_THRESHOLD
  THEN " "
  ELSE IF ShouldInsertSpace(LastChar(c.assembled), item.str)
  THEN " "
  ELSE ""

\* hasEOL left unread
LineEndIgnored(str, hasEOL) == str

\* if (hasEOL) { assembled = assembled.trimEnd(); assembled += "\n" }
LineEnd(str, hasEOL) == IF hasEOL THEN Append(TrimEnd(str), "\n") ELSE str

\* the body of the fragment loop on one item: the next values of assembled,
\* lastY and lastX
AssembleItem(c, item) ==
  LET sep == Separator(c, item)
      joined == IF sep = "\n" THEN Append(TrimEnd(c.assembled), "\n")
                ELSE IF sep = " " THEN Append(c.assembled, " ")
                ELSE c.assembled
  IN  [assembled |-> LineEnd(joined \o item.str, item.hasEOL),
       lastY |-> IF item.y # Null THEN item.y ELSE c.lastY,
       lastX |-> IF item.hasEOL \/ item.x = Null THEN Null
                 ELSE item.x + item.width]

\* textItem.str of the fragments: a word, a word between blanks, a blank,
\* a full stop before an opening bracket, a word ending in a hyphen
\* (U+2010)
FragmentStrs ==
  {<<"a">>, <<" ", "a", " ">>, <<" ">>, <<".", "(">>, <<"a", "U+2010">>}

\* transform[4] and transform[5] of the fragments: places on three lines
\* one unit and two units apart, or no transform
FragmentPlaces ==
  {[x |-> Null, y |-> Null], [x |-> 0, y |-> 0], [x |-> 6, y |-> 0],
   [x |-> 11, y |-> 0], [x |-> 12, y |-> 0], [x |-> 12, y |-> 1],
   [x |-> 0, y |-> 2]}

\* textContent.items: each fragment is six units wide
Fragments ==
  {[str |-> str, x |-> at.x, y |-> at.y, width |-> 6, hasEOL |-> eol] :
     str \in FragmentStrs, at \in FragmentPlaces, eol \in BOOLEAN}

\* no fragment yet
NoItem == [str |-> <<>>, x |-> Null, y |-> Null, width |-> 0,
           hasEOL |-> FALSE]

\* send(event, data): `event: <event>\ndata: <JSON>\n\n`, as the symbols
\* the client's parser tells apart: the two field names, the event name,
\* the JSON text (which holds no line break) and the line breaks
Send(e) == <<"event:", e.name, "\n", "data:", e.data, "\n", "\n">>

\* the bytes of the events a server sends one after the other
RECURSIVE Wire(_)
Wire(events) ==
  IF events = <<>> THEN <<>> ELSE Send(Head(events)) \o Wire(Tail(events))

\* the events of a stream here: their names and two JSON texts
ServerEvents ==
  [name : {"meta", "progress", "result", "error"}, data : {"1", "2"}]

\* buffer.indexOf("\n\n"), counted from 1; 0 for -1
IndexOfSeparator(buffer) ==
  LET hits == {i \in 1..(Len(buffer) - 1) :
                 buffer[i] = "\n" /\ buffer[i + 1] = "\n"}
  IN  IF hits = {} THEN 0 ELSE Least(hits)

\* rawEvent.split("\n")
RECURSIVE SplitLines(_, _)
SplitLines(str, line) ==
  IF str = <<>> THEN <<line>>
  ELSE IF Head(str) = "\n" THEN <<line>> \o SplitLines(Tail(str), <<>>)
  ELSE SplitLines(Tail(str), Append(line, Head(str)))

\* for (const line of lines) { ... }: eventName and dataLines, from the
\* line at index i on
RECURSIVE ReadLines(_, _, _, _)
ReadLines(lines, i, eventName, dataLines) ==
  IF i > Len(lines)
  THEN [eventName |-> eventName, dataLines |-> dataLines]
  ELSE LET line == lines[i]
       IN  IF line # <<>> /\ Head(line) = "event:"
           THEN ReadLines(lines, i + 1, TrimEnd(TrimStart(Tail(line))),
                          dataLines)
           ELSE IF line # <<>> /\ Head(line) = "data:"
           THEN ReadLines(lines, i + 1, eventName,
                          Append(dataLines, TrimEnd(TrimStart(Tail(line)))))
           ELSE ReadLines(lines, i + 1, eventName, dataLines)

\* dataLines.join("\n")
RECURSIVE JoinLines(_)
JoinLines(dataLines) ==
  IF dataLines = <<>> THEN <<>>
  ELSE IF Len(dataLines) = 1 THEN Head(dataLines)
  ELSE Head(dataLines) \o <<"\n">> \o JoinLines(Tail(dataLines))

\* buffer = the chunk: what was left of the read before is dropped
AccumulateChunkOnly(buffer, chunk) == chunk

\* buffer += decoder.decode(value, { stream: true })
Accumulate(buffer, chunk) == buffer \o chunk

\* while ((separatorIndex = buffer.indexOf("\n\n")) !== -1) { ... }: the
\* buffer that is left and the calls of handleEvent; handleEvent throws on
\* an error event, which ends the loop
RECURSIVE Drain(_, _)
Drain(buffer, handled) ==
  LET separatorIndex == IndexOfSeparator(buffer)
  IN  IF separatorIndex = 0
      THEN [buffer |-> buffer, handled |-> handled, thrown |-> FALSE]
      ELSE
        LET rawEvent ==
              TrimEnd(TrimStart(SubSeq(buffer, 1, separatorIndex - 1)))
            rest == SubSeq(buffer, separatorIndex + 2, Len(buffer))
            fields == ReadLines(SplitLines(rawEvent, <<>>), 1,
                                <<"message">>, <<>>)
            data == JoinLines(fields.dataLines)
            handledNow ==
              Append(handled, [eventName |-> fields.eventName, data |-> data])
        IN  IF rawEvent = <<>> \/ data = <<>> THEN Drain(rest, handled)
            ELSE IF fields.eventName = <<"error">>
            THEN [buffer |-> rest, handled |-> handledNow, thrown |-> TRUE]
            ELSE Drain(rest, handledNow)

\* the program at rest while a pure function is called
ProgramIdle ==
  /\ pages = <<>>
  /\ concurrency = MaxConc
  /\ configured = TRUE
  /\ PipelineStart
  /\ PostOver
  /\ target = NoTarget

----------------------------------------------------------------------------
(* processPage computing the quote target from the summary target, which  *)
(* targetSummaryWordCount has put between its two bounds                   *)

QuoteTargetInit ==
  /\ call \in [pc : {"start"},
                summaryTargetWords : MIN_SUMMARY_WORDS..MAX_SUMMARY_WORDS,
                quoteDensity : Densities, quoteWords : {0}]
  /\ ProgramIdle

\* const targetQuoteWords = targetQuotedWords(page, targetWords, ...)
ComputeQuoteTarget ==
  /\ call.pc = "start"
  /\ call' =
       [call EXCEPT
          !.quoteWords = TargetQuotedWords(call.summaryTargetWords,
                                           call.quoteDensity),
          !.pc = "done"]
  /\ UNCHANGED programVars

QuoteTargetNext == ComputeQuoteTarget

QuoteTargetSpec == QuoteTargetInit /\ [][QuoteTargetNext]_vars

----------------------------------------------------------------------------
(* extractQuotes(summary, originalPage): one step per regex match.  Each   *)
(* result also records match.index, the place of the span in the summary.  *)

QuotesInit ==
  /\ call \in [pc : {"unicode"}, summary : Strings(QuoteChars, MaxSummaryLen),
                originalPage : {1, MaxPages}, lastIndex : {1}, seen : {{}},
                results : {<<>>}]
  /\ ProgramIdle

\* while ((match = unicodeQuotePattern.exec(summary)) !== null)
UnicodeQuoteLoop ==
  /\ call.pc = "unicode"
  /\ LET match == RegexExec(call.summary, LDQ, RDQ, call.lastIndex)
     IN  call' = IF match.index = 0
                 THEN [call EXCEPT !.pc = "ascii", !.lastIndex = 1]
                 ELSE PushQuote(call, match)
  /\ UNCHANGED programVars

\* while ((match = asciiQuotePattern.exec(summary)) !== null); return results
AsciiQuoteLoop ==
  /\ call.pc = "ascii"
  /\ LET match == RegexExec(call.summary, QUOT, QUOT, call.lastIndex)
     IN  call' = IF match.index = 0
                 THEN [call EXCEPT !.pc = "done", !.lastIndex = 1]
                 ELSE PushQuote(call, match)
  /\ UNCHANGED programVars

QuotesNext == UnicodeQuoteLoop \/ AsciiQuoteLoop

QuotesSpec == QuotesInit /\ [][QuotesNext]_vars

----------------------------------------------------------------------------
(* sanitizeForPdf applied to a text, and then to its own output as         *)
(* renderCondensedPdf does when it hands the sanitized summary to wrapText *)

SanitizeInit ==
  /\ call \in [pc : {"start"}, text : Strings(SanitizeChars, MaxTextLen),
                sanitized : {<<>>}, again : {<<>>}]
  /\ ProgramIdle

\* const bodyText = sanitizeForPdf(summaryPage.summary)
Sanitize ==
  /\ call.pc = "start"
  /\ call' = [call EXCEPT !.sanitized = SanitizeForPdf(call.text),
                          !.pc = "once"]
  /\ UNCHANGED programVars

\* wrapText(bodyText, ...): const sanitized = sanitizeForPdf(text)
SanitizeAgain ==
  /\ call.pc = "once"
  /\ call' = [call EXCEPT !.again = SanitizeForPdf(call.sanitized),
                          !.pc = "twice"]
  /\ UNCHANGED programVars

SanitizeNext == Sanitize \/ SanitizeAgain

SanitizeSpec == SanitizeInit /\ [][SanitizeNext]_vars

----------------------------------------------------------------------------
(* wrapText(text, font, fontSize, maxWidth, ...): one step per word        *)

WrapInit ==
  /\ call \in [pc : {"start"}, text : Strings(WrapChars, MaxWrapLen),
                maxWidth : 2..MaxWidth, words : {<<>>}, index : {1},
                currentLine : {<<>>}, lines : {<<>>}, cursorY : {0}]
  /\ ProgramIdle

\* const sanitized = sanitizeForPdf(text); const words = ...
WrapSplit ==
  /\ call.pc = "start"
  /\ call' = [call EXCEPT
                !.words = SplitWords(SanitizeForPdf(call.text), <<>>),
                !.pc = "words"]
  /\ UNCHANGED programVars

\* words.forEach((word, index) => ...): the callback on one word
WrapWord ==
  /\ call.pc = "words"
  /\ call.index <= Len(call.words)
  /\ LET word == call.words[call.index]
         last == call.index = Len(call.words)
         candidate == IF call.currentLine = <<>> THEN word
                      ELSE call.currentLine \o <<32>> \o word
         flushed == IF call.currentLine # <<>>
                    THEN PushLine(call.lines, call.currentLine)
                    ELSE call.lines
     IN  call' =
           IF Fits(candidate, call.maxWidth)
           THEN [call EXCEPT
                   !.currentLine = candidate,
                   !.lines = IF last THEN PushLine(@, candidate) ELSE @,
                   !.index = @ + 1]
           ELSE IF ~Fits(word, call.maxWidth)
           THEN [call EXCEPT
                   !.currentLine = <<>>,
                   !.lines = HardBreak(word, 1, <<>>, flushed, call.maxWidth),
                   !.index = @ + 1]
           ELSE [call EXCEPT
                   !.currentLine = word,
                   !.lines = IF last THEN PushLine(flushed, word)
                             ELSE flushed,
                   !.index = @ + 1]
  /\ UNCHANGED programVars

\* return lines
WrapReturn ==
  /\ call.pc = "words"
  /\ call.index > Len(call.words)
  /\ call' = [call EXCEPT !.pc = "done"]
  /\ UNCHANGED programVars

\* addParagraph after wrapText has returned: the lines are drawn and the
\* next cursor position is returned
AddParagraph ==
  /\ call.pc = "done"
  /\ "lines" \in DOMAIN call
  /\ "cursorY" \in DOMAIN call
  /\ call' = [call EXCEPT !.cursorY = AddParagraphReturn(call.lines),
                          !.pc = "drawn"]
  /\ UNCHANGED programVars

WrapNext == WrapSplit \/ WrapWord \/ WrapReturn \/ AddParagraph

WrapSpec == WrapInit /\ [][WrapNext]_vars

----------------------------------------------------------------------------
(* renderCondensedPdf(pages, metadata): the check of the list, the cover   *)
(* page, one content page per condensed page, the save.  pdf-lib is taken  *)
(* to draw every text it is handed; bytes is the saved document, empty    *)
(* as long as nothing has been saved.                                      *)

RenderInit ==
  /\ call \in [pc : {"start"},
                pages : Strings([pageNumber : 1..MaxSrcPages,
                                 summary : Summaries], MaxPages),
                title : {"null", "title"}, author : {"null", "author"},
                doc : {<<>>}, index : {0}, bytes : {<<>>},
                error : {"none"}]
  /\ ProgramIdle

\* the empty list is refused; otherwise PDFDocument.create(), the fonts and
\* the cover page
RenderCover ==
  /\ call.pc = "start"
  /\ call' = IF NoPages(call.pages)
             THEN [call EXCEPT
                     !.error =
                       "No summarized pages provided for PDF rendering.",
                     !.pc = "thrown"]
             ELSE [call EXCEPT
                     !.doc = <<CoverPage(call.title, call.author)>>,
                     !.pc = "pages"]
  /\ UNCHANGED programVars

\* pages.forEach((summaryPage, index) => ...): the callback on one page
RenderContentPage ==
  /\ call.pc = "pages"
  /\ call.index < Len(call.pages)
  /\ call' = [call EXCEPT
                !.doc = Append(@, ContentPage(call.pages[call.index + 1],
                                              call.index)),
                !.index = @ + 1]
  /\ UNCHANGED programVars

\* const pdfBytes = await pdfDoc.save(); return Buffer.from(pdfBytes)
RenderSave ==
  /\ call.pc = "pages"
  /\ call.index = Len(call.pages)
  /\ call' = [call EXCEPT !.bytes = call.doc, !.pc = "returned"]
  /\ UNCHANGED programVars

RenderNext == RenderCover \/ RenderContentPage \/ RenderSave

RenderSpec == RenderInit /\ [][RenderNext]_vars

----------------------------------------------------------------------------
(* The fragment loop of pagerender: one step per item of                   *)
(* textContent.items.  before, priorY and priorX keep what assembled,      *)
(* lastY and lastX were when the loop body began, item the fragment;       *)
(* ordered tells that no fragment so far lies above the one before it or,  *)
(* on its line, to the left of it.                                         *)

AssembleInit ==
  /\ call = [pc |-> "items", n |-> 0, assembled |-> <<>>, lastY |-> Null,
             lastX |-> Null, item |-> NoItem, before |-> <<>>,
             priorY |-> Null, priorX |-> Null, ordered |-> TRUE]
  /\ ProgramIdle

\* for (const item of textContent.items) { ... }
AssembleFragment ==
  /\ call.pc = "items"
  /\ call.n < MaxFragments
  /\ \E item \in Fragments :
       LET next == AssembleItem(call, item)
       IN  call' = [call EXCEPT
                      !.n = @ + 1,
                      !.assembled = next.assembled,
                      !.lastY = next.lastY,
                      !.lastX = next.lastX,
                      !.item = item,
                      !.before = call.assembled,
                      !.priorY = call.lastY,
                      !.priorX = call.lastX,
                      !.ordered =
                        /\ @
                        /\ (call.lastY # Null /\ item.y # Null) =>
                             /\ item.y >= call.lastY
                             /\ item.y - call.lastY <= 1 =>
                                  item.x >= call.item.x]
  /\ UNCHANGED programVars

AssembleNext == AssembleFragment

AssembleSpec == AssembleInit /\ [][AssembleNext]_vars

----------------------------------------------------------------------------
(* The read loop of handleSubmit on the body of the response: the server's *)
(* bytes arrive in chunks of any length.  A chunk ends between two symbols *)
(* of Send; the loop looks at the bytes only once they are in the buffer.  *)
(* cutInside and cutAtBlank tell that a chunk has ended inside an event,   *)
(* and between the two line breaks that end one.                           *)

ReaderInit ==
  /\ \E events \in Strings(ServerEvents, MaxEvents) :
       call = [pc |-> "reading", events |-> events, wire |-> Wire(events),
               pos |-> 0, buffer |-> <<>>, handled |-> <<>>,
               cutInside |-> FALSE, cutAtBlank |-> FALSE]
  /\ ProgramIdle

\* const { value, done } = await reader.read() with a chunk, and the inner
\* while loop on the buffer
ReaderRead ==
  /\ call.pc = "reading"
  /\ \E k \in 1..(Len(call.wire) - call.pos) :
       LET chunk == SubSeq(call.wire, call.pos + 1, call.pos + k)
           drained == Drain(Accumulate(call.buffer, chunk), call.handled)
       IN  call' = [call EXCEPT
                      !.pos = @ + k,
                      !.buffer = drained.buffer,
                      !.handled = drained.handled,
                      !.cutInside = @ \/ (call.pos + k) % 7 \in 1..5,
                      !.cutAtBlank = @ \/ (call.pos + k) % 7 = 6,
                      !.pc = IF drained.thrown THEN "thrown" ELSE "reading"]
  /\ UNCHANGED programVars

\* if (done) break
ReaderDone ==
  /\ call.pc = "reading"
  /\ call.pos = Len(call.wire)
  /\ call' = [call EXCEPT !.pc = "ended"]
  /\ UNCHANGED programVars

ReaderNext == ReaderRead \/ ReaderDone

ReaderSpec == ReaderInit /\ [][ReaderNext]_vars

(***************************************************************************)
(* The client page (src/app/page.tsx): file drops, page inspection, reset  *)
(* and the consumption of condensation streams.  The component's state is  *)
(* kept in the record call; an inspection or a submission in flight is an  *)
(* entry of call.inspections or call.submits.                              *)
(***************************************************************************)
MaxFiles == 2
MaxDrops == 2
MaxSubmits == 2

\* the pages the inspection endpoint reports for a file: file f has f pages
PagesOf(f) == [i \in 1..f |-> i]

NoProgress == [processed |-> 0, total |-> 0]

RECURSIVE ProgressEvents(_, _)
ProgressEvents(j, total) ==
  IF j = 0 THEN <<>>
  ELSE Append(ProgressEvents(j - 1, total),
              [name |-> "progress", processed |-> j, total |-> total])

\* the event streams the condensation route produces for total pages: meta,
\* one progress event per finished page, then a result after all of them or
\* an error after any number of them
ResponseStreams(total) ==
  LET meta == [name |-> "meta", processed |-> 0, total |-> total]
      last(name, j) == [name |-> name, processed |-> j, total |-> total]
  IN  {<<meta>> \o ProgressEvents(total, total) \o <<last("result", total)>>}
      \cup {<<meta>> \o ProgressEvents(j, total) \o <<last("error", j)>> :
              j \in 0..total}

\* fetchPageMetadata up to its await
FetchPageMetadata(c, pdf) ==
  [c EXCEPT !.metadataStatus = "loading",
            !.pagesMeta = <<>>,
            !.selectedPages = <<>>,
            !.inspections = @ \cup {[req |-> c.drops + 1, file |-> pdf]}]

\* the catch block of handleSubmit for an error that is no AbortError
CatchSubmit(c) ==
  [c EXCEPT !.uiStatus = "error",
            !.abortControllerRef = 0,
            !.progress = NoProgress]

\* handleEvent for an event that does not throw
HandleEvent(c, e) ==
  CASE e.name = "meta" ->
         [c EXCEPT !.progress = [processed |-> 0, total |-> e.total],
                   !.uiStatus = "processing"]
    [] e.name = "progress" ->
         [c EXCEPT !.progress = [processed |-> e.processed, total |-> e.total],
                   !.uiStatus = "processing"]
    [] e.name = "result" ->
         [c EXCEPT !.uiStatus = "success"]

ClientInit ==
  /\ call = [pc |-> "client", file |-> 0, uiStatus |-> "idle",
             progress |-> NoProgress, metadataStatus |-> "idle",
             pagesMeta |-> <<>>, selectedPages |-> <<>>,
             inspections |-> {}, drops |-> 0,
             abortControllerRef |-> 0, submits |-> <<>>]
  /\ ProgramIdle

\* handleDrop with a PDF file
HandleDrop ==
  /\ call.drops < MaxDrops
  /\ \E nextFile \in 1..MaxFiles :
       call' = [FetchPageMetadata(call, nextFile) EXCEPT
                  !.file = nextFile,
                  !.uiStatus = "idle",
                  !.drops = @ + 1]
  /\ UNCHANGED programVars

\* handleDrop with a file that is no PDF
HandleDropNotPdf ==
  /\ call.uiStatus # "error"
  /\ call' = [call EXCEPT !.uiStatus = "error"]
  /\ UNCHANGED programVars

\* fetchPageMetadata after its await: the inspection response or its failure
MetadataResponse ==
  /\ \E r \in call.inspections : \E ok \in BOOLEAN :
       call' = IF ok
               THEN [call EXCEPT !.pagesMeta = PagesOf(r.file),
                                 !.selectedPages = PagesOf(r.file),
                                 !.metadataStatus = "ready",
                                 !.inspections = @ \ {r}]
               ELSE [call EXCEPT !.metadataStatus = "error",
                                 !.inspections = @ \ {r}]
  /\ UNCHANGED programVars

\* handlePageToggle on a page of the rendered list
HandlePageToggle ==
  /\ call.metadataStatus = "ready"
  /\ \E pageNumber \in {call.pagesMeta[i] : i \in 1..Len(call.pagesMeta)} :
       call' = [call EXCEPT !.selectedPages =
                  IF \E i \in 1..Len(@) : @[i] = pageNumber
                  THEN SelectSeq(@, LAMBDA value : value # pageNumber)
                  ELSE SortSeq(Append(@, pageNumber), LAMBDA a, b : a < b)]
  /\ UNCHANGED programVars

\* reset, whose button is disabled while the status is processing
Reset ==
  /\ call.uiStatus # "processing"
  /\ call' = [call EXCEPT
                !.submits = IF call.abortControllerRef = 0 THEN @
                            ELSE [@ EXCEPT ![call.abortControllerRef].aborted = TRUE],
                !.abortControllerRef = 0,
                !.uiStatus = "idle",
                !.file = 0,
                !.progress = NoProgress,
                !.metadataStatus = "idle",
                !.pagesMeta = <<>>,
                !.selectedPages = <<>>]
  /\ UNCHANGED programVars

\* handleSubmit up to its first await; the submit button is disabled while
\* the status is processing, the metadata is not ready or no page is selected
HandleSubmit ==
  /\ call.uiStatus # "processing"
  /\ call.metadataStatus = "ready"
  /\ call.selectedPages # <<>>
  /\ Len(call.submits) < MaxSubmits
  /\ call' =
       IF call.file = 0 \/ call.pagesMeta = <<>>
       THEN [call EXCEPT !.uiStatus = "error"]
       ELSE [call EXCEPT
               !.uiStatus = "processing",
               !.progress = NoProgress,
               !.abortControllerRef = Len(call.submits) + 1,
               !.submits = Append(@, [pc |-> "fetching",
                                      total |-> Len(call.selectedPages),
                                      events |-> <<>>,
                                      aborted |-> FALSE])]
  /\ UNCHANGED programVars

\* the response of fetch("/api/condense"): an event stream, or a response
\* that makes handleSubmit throw
FetchResponse ==
  /\ \E s \in 1..Len(call.submits) :
       /\ call.submits[s].pc = "fetching"
       /\ ~call.submits[s].aborted
       /\ \/ \E events \in ResponseStreams(call.submits[s].total) :
               call' = [call EXCEPT !.submits[s].pc = "reading",
                                    !.submits[s].events = events]
          \/ call' = [CatchSubmit(call) EXCEPT !.submits[s].pc = "failed"]
  /\ UNCHANGED programVars

\* one event of the stream reaches handleEvent
ReadEvent ==
  /\ \E s \in 1..Len(call.submits) :
       /\ call.submits[s].pc = "reading"
       /\ ~call.submits[s].aborted
       /\ call.submits[s].events # <<>>
       /\ LET e == Head(call.submits[s].events)
          IN  call' = IF e.name = "error"
                      THEN [CatchSubmit(call) EXCEPT
                              !.submits[s].pc = "failed",
                              !.submits[s].events = Tail(@)]
                      ELSE [HandleEvent(call, e) EXCEPT
                              !.submits[s].events = Tail(@)]
  /\ UNCHANGED programVars

\* reader.read() reports the end of the stream
ReadDone ==
  /\ \E s \in 1..Len(call.submits) :
       /\ call.submits[s].pc = "reading"
       /\ ~call.submits[s].aborted
       /\ call.submits[s].events = <<>>
       /\ call' = [call EXCEPT !.submits[s].pc = "ended",
                               !.abortControllerRef = 0]
  /\ UNCHANGED programVars

\* the pending fetch or read of an aborted submission rejects with an
\* AbortError, on which the catch block returns
SubmitAborted ==
  /\ \E s \in 1..Len(call.submits) :
       /\ call.submits[s].pc \in {"fetching", "reading"}
       /\ call.submits[s].aborted
       /\ call' = [call EXCEPT !.submits[s].pc = "aborted"]
  /\ UNCHANGED programVars

ClientNext ==
  \/ HandleDrop
  \/ HandleDropNotPdf
  \/ MetadataResponse
  \/ HandlePageToggle
  \/ Reset
  \/ HandleSubmit
  \/ FetchResponse
  \/ ReadEvent
  \/ ReadDone
  \/ SubmitAborted

ClientSpec == ClientInit /\ [][ClientNext]_vars

(***************************************************************************)
(* extractPdfPages and the global console (src/unnamed/part_002).  A       *)
(* console function is named by the call that installed it: 0 is the       *)
(* function installed before the first call, k the wrapper that call k     *)
(* has assigned.                                                           *)
(***************************************************************************)
MaxExtractions == 3

ConsoleMethods == {"warn", "error", "log"}

\* console.warn, console.error and console.log before the first call
InstalledConsole == [m \in ConsoleMethods |-> 0]

ConsoleInit ==
  /\ call = [pc |-> "console",
             console |-> InstalledConsole,
             extractions |-> [k \in 1..MaxExtractions |->
                                [pc |-> "idle", original |-> InstalledConsole]]]
  /\ ProgramIdle

\* extractPdfPages up to await pdfParse: the current console functions are
\* saved and the wrappers assigned
ExtractStart ==
  /\ \E k \in 1..MaxExtractions :
       /\ call.extractions[k].pc = "idle"
       /\ call' = [call EXCEPT
                     !.extractions[k] = [pc |-> "parsing",
                                         original |-> call.console],
                     !.console = [m \in ConsoleMethods |-> k]]
  /\ UNCHANGED programVars

\* pdfParse has resolved or rejected: the finally block assigns the saved
\* functions, then the call returns its pages or throws
ExtractFinally ==
  /\ \E k \in 1..MaxExtractions : \E outcome \in {"returned", "failed"} :
       /\ call.extractions[k].pc = "parsing"
       /\ call' = [call EXCEPT
                     !.extractions[k].pc = outcome,
                     !.console = call.extractions[k].original]
  /\ UNCHANGED programVars

ConsoleNext == ExtractStart \/ ExtractFinally

ConsoleSpec == ConsoleInit /\ [][ConsoleNext]_vars

----------------------------------------------------------------------------
(* Vocabulary of the properties *)

Last(s) == s[Len(s)]

IsTerminal(e) == e.type \in {"result", "error"}

\* tasks whose external condensation call is pending
InFlight == {p \in PageIds : task[p] = "pending"}

\* tasks whose condensation failed: processPage rejected, no result pushed
Failed ==
  {p \in PageIds : /\ task[p] \in {"rejected", "thenErr", "finErr", "doneErr"}
                   /\ p \notin SeqToSet(results)}

\* tasks whose promise chain has run to its .finally callback
Completed ==
  {p \in PageIds : task[p] \in {"finOk", "finErr", "doneOk", "doneErr"}}

ProgressPages == [k \in 1..Len(progressCalls) |-> progressCalls[k][1]]

Settled == sched \in {"returned", "failed"}

----------------------------------------------------------------------------
(* C1: at most `concurrency` tasks are admitted and not yet settled, in   *)
(* every reachable state, and a page is admitted only in a state where     *)
(* fewer than `concurrency` promises are in active.                        *)
C1_SlidingWindow ==
  /\ [](Len(active) <= concurrency /\ Cardinality(InFlight) <= concurrency)
  /\ [][Len(admitted') > Len(admitted) => Len(active) < concurrency]_vars

\* the window was full and a page beyond the first `concurrency` was admitted
C1_Witness ==
  /\ Len(admitted) > concurrency
  /\ Cardinality(InFlight) = concurrency

(* C2: when the condensation of some page has failed, summarizePages does  *)
(* not return a result list; it never returns with a failed page omitted.  *)
C2_FailurePropagates == sched = "returned" => Failed = {}

(* C3: the stream is one meta event, then progress events with strictly    *)
(* increasing processedPages, then one terminal event (result or error);   *)
(* the terminal event is the last one and the controller is closed with it.*)
C3_StreamShape ==
  /\ routePc # "init" => Len(stream) >= 1 /\ stream[1].type = "meta"
  /\ \A i \in 2..Len(stream) : stream[i].type # "meta"
  /\ \A i \in 1..(Len(stream) - 1) : ~IsTerminal(stream[i])
  /\ \A i, j \in 1..Len(stream) :
       (i < j /\ stream[i].type = "progress" /\ stream[j].type = "progress")
         => stream[i].n < stream[j].n
  /\ ctrl = "closed" <=> (stream # <<>> /\ IsTerminal(Last(stream)))

\* a closed stream with progress events before its terminal event, and a
\* task that completed after the close
C3_Witness ==
  /\ ctrl = "closed"
  /\ Len(stream) >= 3
  /\ Len(progressCalls) > Len(stream) - 2

(* C4: when summarizePages returns, the list is sorted by pageNumber       *)
(* ascending and holds exactly one result per input page.                  *)
C4_SortedComplete == sched = "returned" => results = pages

(* C5: onProgress is invoked once per successful completion, in completion *)
(* order, and the k-th invocation carries completedCount = k.              *)
C5_ProgressCount ==
  /\ Len(progressCalls) = completedCount
  /\ \A k \in 1..Len(progressCalls) : progressCalls[k][2] = k
  /\ \A j, k \in 1..Len(progressCalls) :
       j # k => progressCalls[j][1] # progressCalls[k][1]
  /\ SeqToSet(ProgressPages) =
       {p \in PageIds : task[p] \in {"thenOk", "finOk", "doneOk"}}
         \cup {p \in PageIds : task[p] \in {"thenErr", "finErr", "doneErr"}
                               /\ p \notin Failed}
  /\ sched # "returned" => ProgressPages = results

\* three completions out of input order, the last one after the stream was
\* closed or cancelled
C5_Witness ==
  /\ Len(progressCalls) = 3
  /\ ProgressPages # SortByPage(ProgressPages)
  /\ Len(stream) < 4

(* C6: a result event is emitted at most once, only after a progress event *)
(* for every selected page, and its document has one content page for      *)
(* every selected page.                                                    *)
C6_NoPartialDocument ==
  \A i \in 1..Len(stream) :
    stream[i].type = "result" =>
      /\ stream[i].doc = pages
      /\ \A p \in SeqToSet(pages) :
           \E j \in 1..(i - 1) :
             stream[j].type = "progress" /\ stream[j].page = p
      /\ \A j \in 1..Len(stream) : stream[j].type = "result" => j = i

(* C7 as stated: summarizePages settles (returns or fails) only with an    *)
(* empty queue and no admitted task still in flight.                       *)
C7_SettlesQuiescent ==
  Settled => queue = <<>> /\ SeqToSet(admitted) \subseteq Completed

(* C7 amended: summarizePages returns only with an empty queue, every page *)
(* admitted and every admitted task settled.                               *)
C7_ReturnsQuiescent ==
  sched = "returned" =>
    /\ queue = <<>>
    /\ active = <<>>
    /\ SeqToSet(admitted) = SeqToSet(pages)
    /\ SeqToSet(admitted) \subseteq Completed

\* a return after three tasks, completed out of input order
C7_Witness ==
  /\ sched = "returned"
  /\ Len(admitted) = 3
  /\ ProgressPages # results

(* C8: when every external condensation call settles, the stream gets its  *)
(* terminal event and is closed; a stream the caller has cancelled cannot  *)
(* carry one and is finished without it.                                   *)
C8_StreamTerminates ==
  <>(/\ routePc = "done"
     /\ \/ ctrl = "cancelled"
        \/ ctrl = "closed" /\ IsTerminal(Last(stream)))

\* a stream closed with its terminal event after the scheduler had to
\* suspend at the cap
C8_Witness ==
  /\ routePc = "done"
  /\ ctrl = "closed"
  /\ IsTerminal(Last(stream))
  /\ Len(admitted) > concurrency

(* C9: after the caller has aborted no further page is admitted, and no    *)
(* result of a task that completed after the abort (a task in flight at    *)
(* the abort) gets into an emitted document.                               *)
C9_AbortStopsPipeline ==
  /\ [][aborted => admitted' = admitted]_vars
  /\ [](aborted =>
         \A i \in 1..Len(stream) :
           stream[i].type = "result" =>
             \A k \in (abortDone + 1)..Len(progressCalls) :
               progressCalls[k][1] \notin SeqToSet(stream[i].doc))

(* C10: with concurrency 1 a task is admitted only after every task before *)
(* it has completed, and onProgress reports the pages in input order.      *)
C10_Sequential ==
  concurrency = 1 =>
    /\ \A k \in 1..(Len(admitted) - 1) : task[admitted[k]] = "doneOk"
    /\ Cardinality(InFlight) <= 1
    /\ \A k \in 1..Len(progressCalls) : progressCalls[k][1] = pages[k]

\* three pages completed one after the other
C10_Witness ==
  /\ concurrency = 1
  /\ Len(admitted) = 3
  /\ Len(progressCalls) = 3

\* tasks of which a reaction (.then, .finally) has run
Reacted ==
  {p \in PageIds : task[p] \in {"thenOk", "thenErr", "finOk", "finErr",
                                 "doneOk", "doneErr"}}

\* tasks whose external condensation call has settled
CallSettled ==
  {p \in PageIds : configured /\ task[p] \notin {"none", "pending"}}

(* C11: with concurrency >= number of pages every page is admitted before  *)
(* any task completes: the scheduler suspends in a race only after the     *)
(* last admission, and no call settles and no reaction runs before it.     *)
C11_AllAdmittedAtOnce ==
  concurrency >= Len(pages) =>
    /\ sched \in {"race", "raceOk", "raceErr"} => queue = <<>>
    /\ (Reacted # {} \/ CallSettled # {}) => admitted = pages
    /\ concurrency > Len(pages) => sched \notin {"race", "raceOk", "raceErr"}

\* two pages at concurrency 2: both were admitted, the scheduler suspended
\* after the second, and a completion has woken it
C11_Witness ==
  /\ concurrency = 2
  /\ Len(pages) = 2
  /\ admitted = pages
  /\ sched = "raceOk"

\* number of external condensation requests issued for page p: processPage
\* issues one in each call, unless the client is not configured
RequestsFor(p) ==
  IF configured
  THEN Cardinality({i \in 1..Len(admitted) : admitted[i] = p})
  ELSE 0

C13_EmptyResultIsError ==
  (routePc = "done" /\ Failed # {} /\ ~aborted) =>
    /\ Last(stream).type = "error"
    /\ \A i \in 1..Len(stream) : stream[i].type # "result"

----------------------------------------------------------------------------
(* Vocabulary of the properties of the POST handler *)

\* the source pages rendered so far that the assembler emits
Readable == {i \in 1..Len(srcPages) : Emitted(srcPages[i])}

\* the source pages of the pages in extractPdfPages's list
ExtractedSources == {extracted[i].src : i \in 1..Len(extracted)}

ExtractionReturned ==
  postPc = "extracted" \/ response \in {"stream", "noMatch"}

ExtractionFailed == response = "unreadable"

\* the page numbers a selectedPages field asks for
Selection(raw) ==
  IF raw.kind = "array" THEN {e \in SeqToSet(raw.entries) : e > 0} ELSE {}

(* C14: the pages of extractPdfPages are numbered 1..n in extraction       *)
(* order, without gaps; a source page that is dropped or whose extraction  *)
(* throws consumes no number, so the pages after it are renumbered.        *)
C14_SequentialNumbering ==
  /\ \A i \in 1..Len(extracted) : extracted[i].pageNumber = i
  /\ \A i, j \in 1..Len(extracted) :
       i < j => extracted[i].src < extracted[j].src
  /\ pageIndex = Cardinality(Readable)
  /\ \A i \in 1..Len(extracted) :
       extracted[i].pageNumber =
         Cardinality({k \in Readable : k <= extracted[i].src})

\* source pages [1,2,3,4] with page 3 throwing: numbers [1,2,3], and
\* number 3 is source page 4
C14_Witness ==
  /\ Len(srcPages) = 4
  /\ srcPages[3].throws
  /\ Len(extracted) = 3
  /\ extracted[3].pageNumber = 3
  /\ extracted[3].src = 4

(* C15: a page whose extraction throws does not stop the extraction of the *)
(* pages after it; extractPdfPages fails exactly when no page was emitted, *)
(* and otherwise returns exactly the emitted pages, in order.              *)
C15_GracefulDegradation ==
  /\ ExtractedSources = Readable
  /\ Len(extracted) = Cardinality(Readable)
  /\ ExtractionFailed => Readable = {}
  /\ ExtractionReturned => Readable # {}
  /\ (postPc = "done" /\ response \notin {"badFile", "tooLarge", "invalid"})
       => (ExtractionFailed <=> Readable = {})

\* extractPdfPages has returned a page that follows a page whose
\* extraction threw
C15_Witness ==
  /\ ExtractionReturned
  /\ hadPageError
  /\ \E i, j \in 1..Len(srcPages) :
       i < j /\ srcPages[i].throws /\ j \in ExtractedSources

(* C16: a page is emitted if and only if its normalized text has at least  *)
(* 14 characters.                                                          *)
C16_EmitThreshold ==
  \A i \in 1..Len(srcPages) :
    ~srcPages[i].throws =>
      (i \in ExtractedSources <=> srcPages[i].chars >= 14)

(* C17: with a selection that names at least one page number, exactly the  *)
(* extracted pages whose pageNumber is selected are handed on, in order;   *)
(* when none is selected the handler answers with the JSON error and opens *)
(* no stream.                                                              *)
C17_SelectionFilter ==
  LET sel == Selection(form.selectedPages)
      matching == {i \in 1..Len(extracted) : extracted[i].pageNumber \in sel}
  IN  (postPc = "done" /\ ExtractionReturned /\ sel # {}) =>
        /\ response = "noMatch" <=> matching = {}
        /\ response = "stream" =>
             /\ SeqToSet(pages) = {extracted[i].pageNumber : i \in matching}
             /\ Len(pages) = Cardinality(matching)
             /\ \A i \in 1..(Len(pages) - 1) : pages[i] < pages[i + 1]
        /\ response = "noMatch" =>
             pages = <<>> /\ stream = <<>> /\ routePc = "init"

\* selection {2,4} on four readable pages: pages 2 and 4 are handed on
C17_Witness ==
  /\ Selection(form.selectedPages) = {2, 4}
  /\ Len(extracted) = 4
  /\ response = "stream"
  /\ pages = <<2, 4>>

\* a number kept in tenths is an integer
IsInteger(t) == t % 10 = 0

\* a density value the claim accepts: an integer of the range, or the
\* field left out (its default stands in)
IntegerIn(raw, min, max) ==
  \/ raw.kind = "absent"
  \/ /\ raw.kind = "number"
     /\ IsInteger(raw.tenths)
     /\ raw.tenths >= 10 * min
     /\ raw.tenths <= 10 * max

(* C18: a request with a PDF file is accepted if and only if summaryDensity*)
(* is an integer in [5,100] and quoteDensity an integer in [0,100]; else   *)
(* it is answered with the validation error before anything is extracted.  *)
C18_DensityValidation ==
  (postPc # "received" /\ form.file = "pdf") =>
    /\ response # "invalid" <=>
         /\ IntegerIn(form.summaryDensity, 5, 100)
         /\ IntegerIn(form.quoteDensity, 0, 100)
    /\ response = "invalid" => srcPages = <<>> /\ pages = <<>>

----------------------------------------------------------------------------
(* The word targets *)

\* n / d rounded to the nearest integer, a half rounded up (n >= 0, d > 0)
RoundHalfUp(n, d) == (2 * n + d) \div (2 * d)

\* clamp(round(wordCount * clamp(summaryDensity, 5, 95) / 100), 120, 650)
\* in exact arithmetic
TargetFormula(wordCount, summaryDensity) ==
  Min(Max(RoundHalfUp(wordCount * Min(Max(summaryDensity, 5), 95), 100), 120),
      650)

(* C19: targetSummaryWords equals                                          *)
(* clamp(round(wordCount * clamp(summaryDensity,5,95) / 100), 120, 650)    *)
(* for every wordCount and summaryDensity, and lies in [120, 650].         *)
C19_TargetFormula ==
  target.done =>
    /\ target.words = TargetFormula(target.wordCount, target.summaryDensity)
    /\ target.words >= 120
    /\ target.words <= 650

(* C20 as stated: for summaryDensity = 0 targetSummaryWords is 120,        *)
(* whatever the wordCount.                                                 *)
C20_FloorAtZeroDensity ==
  (target.done /\ target.summaryDensity = 0) => target.words = 120

(* C20 amended: for summaryDensity = 0 targetSummaryWords is the clamped   *)
(* twentieth of the wordCount: 120 for every page of fewer than 2410       *)
(* words, and more than 120 from 2410 words on.                            *)
C20_FloorBelow2410Words ==
  (target.done /\ target.summaryDensity = 0) =>
    /\ target.words = TargetFormula(target.wordCount, 0)
    /\ target.wordCount < 2410 => target.words = 120
    /\ target.wordCount >= 2410 => target.words > 120

\* a page of 2409 words at density 0 gets the floor
C20_Witness ==
  /\ target.done
  /\ target.summaryDensity = 0
  /\ target.wordCount = 2409
  /\ target.words = 120

\* clamp(round(targetSummaryWords * clamp(quoteDensity,0,100) / 100),
\*       quoteDensity > 0 ? 12 : 0, max(0, targetSummaryWords - 20))
\* in exact arithmetic
QuoteFormula(summaryTargetWords, quoteDensity) ==
  LET desired ==
        RoundHalfUp(summaryTargetWords * Min(Max(quoteDensity, 0), 100), 100)
      lower == IF quoteDensity > 0 THEN 12 ELSE 0
      upper == Max(0, summaryTargetWords - 20)
  IN  Min(Max(desired, lower), upper)

(* C21: targetQuoteWords equals clamp(round(targetSummaryWords *           *)
(* clamp(quoteDensity,0,100)/100), quoteDensity>0 ? 12 : 0,                *)
(* max(0, targetSummaryWords - 20)); it is 0 for quoteDensity 0, at least  *)
(* 12 for quoteDensity > 0 and at most targetSummaryWords - 20.            *)
C21_QuoteTargetFormula ==
  call.pc = "done" =>
    /\ call.quoteWords =
         QuoteFormula(call.summaryTargetWords, call.quoteDensity)
    /\ call.quoteDensity = 0 => call.quoteWords = 0
    /\ call.quoteDensity > 0 => call.quoteWords >= 12
    /\ call.quoteWords <= call.summaryTargetWords - 20

\* the quotation-mark-delimited spans of a summary: where each begins and
\* its trimmed text
RECURSIVE SpansFrom(_, _, _, _)
SpansFrom(str, open, close, from) ==
  LET match == RegexExec(str, open, close, from)
  IN  IF match.index = 0 THEN {}
      ELSE {[index |-> match.index, text |-> Trim(match.group)]}
             \cup SpansFrom(str, open, close, match.end + 1)

QuotedSpans(str) ==
  {sp \in SpansFrom(str, LDQ, RDQ, 1) \cup SpansFrom(str, QUOT, QUOT, 1) :
     sp.text # <<>>}

\* where a quoted text first appears in the summary
FirstAppearance(str, text) ==
  Least({sp.index : sp \in {x \in QuotedSpans(str) : x.text = text}})

(* C22: extractQuotes returns the quoted spans of the text, smart-quoted   *)
(* and straight-quoted, each trimmed, non-empty, once per exact text and   *)
(* tagged with the page number, in order of first appearance in the text,  *)
(* also when the two kinds of span are interleaved.                        *)
C22_OrderOfFirstAppearance ==
  call.pc = "done" /\ "results" \in DOMAIN call =>
    LET res == call.results
    IN  /\ {res[i].text : i \in 1..Len(res)} =
             {sp.text : sp \in QuotedSpans(call.summary)}
        /\ \A i \in 1..Len(res) :
             /\ res[i].text # <<>>
             /\ res[i].text = Trim(res[i].text)
             /\ res[i].originalPage = call.originalPage
        /\ \A i, j \in 1..Len(res) : i < j =>
             /\ res[i].text # res[j].text
             /\ FirstAppearance(call.summary, res[i].text) <
                  FirstAppearance(call.summary, res[j].text)

\* a sanitizeForPdf call has returned
Sanitized == call.pc \in {"once", "twice"} /\ "sanitized" \in DOMAIN call

\* what the table gives for a character
TableValue(char) ==
  IF char \in {8220, 8221, 8222} THEN <<34>>
  ELSE IF char \in {8216, 8217, 8218} THEN <<39>>
  ELSE IF char \in 8209..8212 THEN <<45>>
  ELSE IF char = 8230 THEN <<46, 46, 46>>
  ELSE IF char \in {8226, 9702, 9679, 9642, 9632, 9633, 9830} \cup 9650..9653
  THEN <<42>>
  ELSE IF char \in {8194, 8195, 8201, 8202, 8239} THEN <<32>>
  ELSE <<>>

\* unchanged up to 255, the table value or nothing above
ClaimedPiece(char) == IF char <= 255 THEN <<char>> ELSE TableValue(char)

\* out is made of one such piece for each character of text, in order
RECURSIVE MadeOfPieces(_, _)
MadeOfPieces(text, out) ==
  IF text = <<>> THEN out = <<>>
  ELSE LET piece == ClaimedPiece(Head(text))
       IN  /\ Len(out) >= Len(piece)
           /\ SubSeq(out, 1, Len(piece)) = piece
           /\ MadeOfPieces(Tail(text), SubSeq(out, Len(piece) + 1, Len(out)))

C24_Idempotent ==
  call.pc = "twice" /\ "again" \in DOMAIN call =>
    call.again = call.sanitized

C24_Witness ==
  /\ call.pc = "twice" /\ "again" \in DOMAIN call
  /\ call.text = <<8212, 8230, 256>>
  /\ call.again = <<45, 46, 46, 46>>

\* wrapText has returned
Wrapped == call.pc = "done" /\ "lines" \in DOMAIN call

\* each single character of the text fits in maxWidth
EachCharacterFits ==
  \A i \in 1..Len(call.text) :
    WidthOfText(SanitizeForPdf(<<call.text[i]>>)) <= call.maxWidth

\* the characters of the lines, one line after the other, blanks left out
RECURSIVE LineLetters(_)
LineLetters(lines) ==
  IF lines = <<>> THEN <<>>
  ELSE SelectSeq(Head(lines).text, LAMBDA c : c # 32)
       \o LineLetters(Tail(lines))

\* the first word of a line
FirstWord(str) ==
  LET blanks == {i \in 1..Len(str) : str[i] = 32}
  IN  IF blanks = {} THEN str ELSE SubSeq(str, 1, Least(blanks) - 1)

\* no word of the text is wider than maxWidth
NoWideWord ==
  \A j \in 1..Len(call.words) : WidthOfText(call.words[j]) <= call.maxWidth

(* C25: for every text and maxWidth such that each single character fits   *)
(* in maxWidth, every line of wrapText has measured width <= maxWidth;      *)
(* words are taken onto a line while the candidate fits, and a word wider   *)
(* than maxWidth is broken into non-empty chunks that each fit.             *)
C25_LinesFit ==
  Wrapped /\ EachCharacterFits =>
    /\ \A i \in 1..Len(call.lines) :
         /\ call.lines[i].text # <<>>
         /\ WidthOfText(call.lines[i].text) <= call.maxWidth
    /\ LineLetters(call.lines) =
         SelectSeq(call.text, LAMBDA c : c \notin {32, 8195})
    /\ NoWideWord =>
         \A i \in 1..(Len(call.lines) - 1) :
           WidthOfText(call.lines[i].text \o <<32>>
                         \o FirstWord(call.lines[i + 1].text)) > call.maxWidth

C25_Witness ==
  /\ Wrapped /\ EachCharacterFits
  /\ call.maxWidth = 3
  /\ call.text = <<105, 32, 87, 87, 105>>
  /\ Len(call.lines) = 3

\* renderCondensedPdf is over: it has returned or thrown
RenderOver == call.pc \in {"returned", "thrown"} /\ "bytes" \in DOMAIN call

(* C26: for every non-empty ordered list of n condensed pages,             *)
(* renderCondensedPdf produces a document of exactly n + 1 pages: a cover  *)
(* page, then one content page per condensed page in input order, the i-th *)
(* with the index i (from 1) in its heading and the original pageNumber of *)
(* its condensed page in its footer.                                       *)
C26_DocumentStructure ==
  RenderOver /\ Len(call.pages) > 0 =>
    /\ call.pc = "returned"
    /\ Len(call.bytes) = Len(call.pages) + 1
    /\ call.bytes[1].kind = "cover"
    /\ \A i \in 1..Len(call.pages) :
         /\ call.bytes[i + 1].kind = "content"
         /\ call.bytes[i + 1].heading = i
         /\ call.bytes[i + 1].footerOriginal = call.pages[i].pageNumber
         /\ call.bytes[i + 1].body = SanitizeForPdf(call.pages[i].summary)

C26_Witness ==
  /\ RenderOver
  /\ Len(call.pages) = 3
  /\ call.pages[1].pageNumber = 4
  /\ call.pages[2].pageNumber = 2
  /\ call.pages[3].pageNumber = 4
  /\ call.pages[2].summary # call.pages[3].summary
  /\ Len(call.bytes) = 4

(* C27: renderCondensedPdf called with an empty page list fails with the   *)
(* error of the empty input and produces no document bytes.                *)
C27_EmptyInputFails ==
  RenderOver /\ Len(call.pages) = 0 =>
    /\ call.pc = "thrown"
    /\ call.error = "No summarized pages provided for PDF rendering."
    /\ call.bytes = <<>>
    /\ call.doc = <<>>

C27_Witness ==
  /\ RenderOver
  /\ call.pages = <<>>
  /\ call.pc = "thrown"
  /\ call.title = "title"

\* the fragment loop has taken a fragment after another one
TookFragment == call.pc = "items" /\ call.n >= 2

\* the fragment just taken is on the line of the one before it, which was
\* not flagged as a line end: both cursors were known and Y moved by at
\* most 1
SameLine ==
  /\ TookFragment
  /\ call.priorY # Null /\ call.item.y # Null
  /\ call.priorX # Null /\ call.item.x # Null
  /\ call.item.y - call.priorY <= 1
  /\ call.priorY - call.item.y <= 1

\* next originX minus previous originX + advanceWidth
XGap == call.item.x - call.priorX

\* the buffer after the fragment when k spaces were inferred before it
WithSpaces(k) ==
  LET text == call.before \o [i \in 1..k |-> " "] \o call.item.str
  IN  IF call.item.hasEOL THEN Append(TrimEnd(text), "\n") ELSE text

\* what the punctuation heuristic says of the buffer and the fragment
Heuristic == ShouldInsertSpace(LastChar(call.before), call.item.str)

(* C28 (as stated): for fragment sequences with non-decreasing Y and X     *)
(* within a line, the assembled text has exactly one inferred space        *)
(* between two adjacent same-line fragments whose X-gap is > 5 units, and  *)
(* zero inferred spaces between them when the gap is <= 0.                 *)
C28_NoSpaceWithoutGap ==
  SameLine /\ call.ordered =>
    /\ XGap > 5 => call.assembled = WithSpaces(1)
    /\ XGap <= 0 => call.assembled = WithSpaces(0)

(* C28 (amended): between two adjacent same-line fragments there is        *)
(* exactly one inferred space when the X-gap is > 5 units; when the gap is *)
(* <= 5 units, and so when it is <= 0, there is exactly one inferred space *)
(* if the punctuation heuristic of shouldInsertSpace asks for it and none  *)
(* otherwise.                                                              *)
C28_GapOrHeuristic ==
  SameLine =>
    /\ XGap > 5 => call.assembled = WithSpaces(1)
    /\ XGap <= 5 =>
         call.assembled = WithSpaces(IF Heuristic THEN 1 ELSE 0)

C28_Witness ==
  /\ SameLine /\ call.ordered
  /\ XGap = 0
  /\ call.before = <<"a">>
  /\ call.item.str = <<"a">>
  /\ call.assembled = <<"a", " ", "a">>

\* Y of the fragment just taken differs from the last known Y by more
\* than 1 unit
YChanged ==
  /\ call.pc = "items" /\ call.n >= 1
  /\ call.priorY # Null /\ call.item.y # Null
  /\ (call.item.y - call.priorY > 1 \/ call.priorY - call.item.y > 1)

\* the line breaks of a text
LineBreaks(str) == Cardinality({i \in 1..Len(str) : str[i] = "\n"})

(* C29: a fragment whose Y differs from the last known Y by more than 1    *)
(* unit starts a new line (trailing whitespace trimmed from the buffer,    *)
(* one line break appended, horizontal cursor reset); a fragment flagged   *)
(* as line end forces the same break after its text; a flagged line end    *)
(* followed by a Y change gives a single line break between the two        *)
(* fragments, not two.                                                     *)
C29_LineBreaks ==
  call.pc = "items" /\ call.n >= 1 =>
    /\ YChanged =>
         LET text == Append(TrimEnd(call.before), "\n") \o call.item.str
         IN  call.assembled =
               IF call.item.hasEOL THEN Append(TrimEnd(text), "\n") ELSE text
    /\ call.item.hasEOL =>
         /\ call.assembled # <<>>
         /\ call.assembled[Len(call.assembled)] = "\n"
         /\ Len(call.assembled) > 1 =>
              call.assembled[Len(call.assembled) - 1] \notin WhiteSpace
         /\ call.lastX = Null
    /\ (YChanged /\ LastChar(call.before) = <<"\n">>) =>
         /\ LineBreaks(call.before \o call.item.str) = LineBreaks(call.before)
         /\ call.assembled =
              IF call.item.hasEOL
              THEN Append(TrimEnd(call.before \o call.item.str), "\n")
              ELSE call.before \o call.item.str

C29_Witness ==
  /\ YChanged
  /\ call.n = 3
  /\ call.priorY = 0
  /\ call.priorX = Null
  /\ call.before = <<"a", "\n", ".", "(">>
  /\ call.item.y = 2
  /\ call.item.hasEOL
  /\ call.assembled = <<"a", "\n", ".", "(", "\n", "a", "\n">>

\* the places of the error events on the stream
ErrorEvents == {i \in 1..Len(stream) : stream[i].type = "error"}

(* C30: every fatal error of the condensation call surfaces in exactly one *)
(* way: a failure found before streaming begins gives a structured error   *)
(* response and no event stream, a failure after the meta event gives a    *)
(* terminal error event on the stream; no request gives both or neither.   *)
C30_FatalErrorSurfacesOnce ==
  /\ response # "stream" => stream = <<>> /\ routePc = "init"
  /\ (response = "stream" /\ routePc = "done" /\ ~aborted) =>
       /\ stream # <<>>
       /\ stream[1].type = "meta"
       /\ Failed # {} => ErrorEvents = {Len(stream)}

\* a fragment has been taken and neither the new-line rule nor the rule of
\* the X-gap above 5 applied to it
NoRuleApplied ==
  /\ call.pc = "items" /\ call.n >= 1
  /\ ~YChanged
  /\ ~(call.priorX # Null /\ call.item.x # Null /\ XGap > 5)

\* the places of the characters of a fragment that are not white space
NonSpacePlaces(str) == {i \in 1..Len(str) : str[i] \notin WhiteSpace}

\* the hyphen variants
HyphenVariants == {"-", "U+2010", "U+2011"}

\* the buffer's last character exists and is neither white space, nor a
\* mark of the class PUNCTUATION_END, nor a hyphen variant, and the first
\* character of the fragment that is not white space exists and is no mark
\* of the class PUNCTUATION_START
SpaceWanted ==
  /\ call.before # <<>>
  /\ call.before[Len(call.before)] \notin
       WhiteSpace \cup PUNCTUATION_END \cup HyphenVariants
  /\ NonSpacePlaces(call.item.str) # {}
  /\ call.item.str[Least(NonSpacePlaces(call.item.str))] \notin
       PUNCTUATION_START

(* C31: when neither the new-line rule nor the X-gap > 5 rule applies, the *)
(* assembler inserts an inferred space before a fragment only if the       *)
(* buffer's last character exists, is not whitespace, is not a mark of the *)
(* closing class (PUNCTUATION_END) and is not a hyphen variant, and the    *)
(* fragment's first non-whitespace character is not a mark of the opening  *)
(* class (PUNCTUATION_START); in every other case no space is inserted.    *)
C31_HeuristicSpace ==
  NoRuleApplied =>
    call.assembled = WithSpaces(IF SpaceWanted THEN 1 ELSE 0)

C31_Witness ==
  /\ NoRuleApplied
  /\ SpaceWanted
  /\ call.before = <<"a">>
  /\ call.item.str = <<" ", "a", " ">>
  /\ call.assembled = <<"a", " ", " ", "a", " ">>

\* the terminal event has been sent and the stream closed
StreamClosed ==
  ctrl = "closed" /\ stream # <<>> /\ IsTerminal(Last(stream))

(* C32: after the stream's terminal event has been sent and the stream     *)
(* closed, the pipeline is quiescent: no progress callback runs and no     *)
(* event is enqueued afterwards, also when tasks that were in flight when  *)
(* another task failed complete later.                                     *)
C32_QuiescentAfterClose ==
  [][StreamClosed => progressCalls' = progressCalls /\ stream' = stream]_vars

\* the read loop is over: the stream has ended or handleEvent has thrown
ReaderOver == call.pc \in {"ended", "thrown"} /\ "handled" \in DOMAIN call

\* the events the server sent, up to the first error event
RECURSIVE UpToError(_)
UpToError(events) ==
  IF events = <<>> THEN <<>>
  ELSE IF Head(events).name = "error" THEN <<Head(events)>>
  ELSE <<Head(events)>> \o UpToError(Tail(events))

\* the calls of handleEvent as (eventName, data) pairs
HandledPairs ==
  [i \in 1..Len(call.handled) |->
     <<call.handled[i].eventName, call.handled[i].data>>]

(* C33: the client's event-stream parser is independent of chunking: for   *)
(* every way of splitting the server's byte stream into read chunks, also  *)
(* inside an event or between the two terminating newlines, handleEvent is *)
(* called with the same sequence of (eventName, data) pairs as for the     *)
(* unsplit stream.                                                         *)
C33_ChunkingIndependent ==
  ReaderOver =>
    /\ call.handled = Drain(call.wire, <<>>).handled
    /\ HandledPairs =
         [i \in 1..Len(UpToError(call.events)) |->
            <<(<<UpToError(call.events)[i].name>>),
              (<<UpToError(call.events)[i].data>>)>>]

C33_Witness ==
  /\ ReaderOver
  /\ Len(call.events) = 2
  /\ call.events[1].name = "meta"
  /\ call.events[2].name = "result"
  /\ Len(call.handled) = 2
  /\ call.cutInside
  /\ call.cutAtBlank

\* the submissions whose fetch or stream is being awaited or read
Consuming ==
  {s \in 1..Len(call.submits) :
     call.submits[s].pc \in {"fetching", "reading"} /\ ~call.submits[s].aborted}

(* C34: in the client, whenever metadataStatus is ready, pagesMeta and     *)
(* selectedPages describe the currently selected file: a file is selected, *)
(* pagesMeta holds that file's pages and every selected page is one of     *)
(* them, whatever the order of drops, resets and inspection responses.     *)
C34_MetadataOfCurrentFile ==
  call.metadataStatus = "ready" =>
    /\ call.file # 0
    /\ call.pagesMeta = PagesOf(call.file)
    /\ \A i \in 1..Len(call.selectedPages) :
         call.selectedPages[i] \in 1..Len(PagesOf(call.file))

(* C35: in the client at most one condensation request or stream is being *)
(* consumed at any time: no sequence of user actions starts a second       *)
(* handleSubmit while a submitted stream is still being read.              *)
C35_SingleStream == Cardinality(Consuming) <= 1

(* C36: when the response stream of a submitted condensation ends, the     *)
(* status is success or error, never still processing, and when the catch  *)
(* block handles an error the progress is reset to 0/0.                    *)
C36_LeavesProcessing ==
  [][\A s \in 1..Len(call.submits) :
       /\ (call.submits[s].pc = "reading" /\ call'.submits[s].pc = "ended")
            => call'.uiStatus \in {"success", "error"}
       /\ (call.submits[s].pc = "reading" /\ call'.submits[s].pc = "failed")
            => call'.uiStatus = "error" /\ call'.progress = NoProgress]_vars

\* no call of extractPdfPages is between its start and its finally block
NoExtractionRunning ==
  \A k \in 1..MaxExtractions : call.extractions[k].pc # "parsing"

(* C37: extractPdfPages leaves the global console unchanged: once every    *)
(* call has finished, by returning or by throwing, console.warn,           *)
(* console.error and console.log are the functions installed before the    *)
(* first call, also when calls overlap in time.                            *)
C37_ConsoleRestored == NoExtractionRunning => call.console = InstalledConsole

\* addParagraph has returned
Drawn == call.pc = "drawn" /\ "lines" \in DOMAIN call

\* words joined by single spaces
RECURSIVE JoinWords(_)
JoinWords(words) ==
  IF words = <<>> THEN <<>>
  ELSE IF Len(words) = 1 THEN Head(words)
  ELSE Head(words) \o <<32>> \o JoinWords(Tail(words))

\* the words of the lines, one line after the other
RECURSIVE LineWords(_)
LineWords(lines) ==
  IF lines = <<>> THEN <<>>
  ELSE SplitWords(Head(lines).text, <<>>) \o LineWords(Tail(lines))

\* the first k of the pieces joined directly
RECURSIVE JoinDirectly(_, _)
JoinDirectly(pieces, k) ==
  IF k = 0 THEN <<>> ELSE JoinDirectly(pieces, k - 1) \o pieces[k]

\* the pieces are the words in order, a word wider than maxWidth possibly
\* cut into several pieces
RECURSIVE Regroups(_, _, _)
Regroups(pieces, words, maxWidth) ==
  IF words = <<>> THEN pieces = <<>>
  ELSE IF pieces = <<>> THEN FALSE
  ELSE \/ /\ Head(pieces) = Head(words)
          /\ Regroups(Tail(pieces), Tail(words), maxWidth)
       \/ /\ WidthOfText(Head(words)) > maxWidth
          /\ \E k \in 2..Len(pieces) :
               /\ JoinDirectly(pieces, k) = Head(words)
               /\ Regroups(SubSeq(pieces, k + 1, Len(pieces)), Tail(words),
                           maxWidth)

NoValidEntry ==
  form.selectedPages.kind # "absent" /\ Selection(form.selectedPages) = {}

(* C39: a selectedPages value that is present but holds no valid entry     *)
(* after parsing (an array without a positive integer, the empty array, a  *)
(* value that is no JSON array) is treated like an absent selection: all   *)
(* readable pages are handed on and the no-matching-pages answer is not    *)
(* given.                                                                  *)
C39_NoValidEntryAsAbsent ==
  (postPc = "done" /\ ExtractionReturned /\ NoValidEntry) =>
    /\ response = "stream"
    /\ pages = [i \in 1..Len(extracted) |-> extracted[i].pageNumber]
    /\ SeqToSet(pages) = {Cardinality({k \in Readable : k <= i}) :
                            i \in Readable}

\* "[0,-1]" with two readable pages: both are handed on
C39_Witness ==
  /\ postPc = "done"
  /\ form.selectedPages = [kind |-> "array", entries |-> <<0, 0 - 1>>]
  /\ response = "stream"
  /\ Len(extracted) = 2
  /\ pages = <<1, 2>>

====
